---- MODULE Spec2Model ----
(***************************************************************************)
(* DWIN T5L firmware: the DGUS Variable Pointer (VP) memory access engine  *)
(* (write_dgus_vp / read_dgus_vp of src/KEIL/sys.c), the handshake         *)
(* registers it drives (ADR_H/M/L, ADR_INC, DATA3..DATA0, RAMMODE), the    *)
(* global interrupt enable EA and the interrupt handlers of the firmware.  *)
(*                                                                         *)
(* The main context executes one C statement (or one run of consecutive    *)
(* register writes) per step; pc names the statement that runs next.  An   *)
(* interrupt handler runs to completion between two main-context steps,    *)
(* when EA = 1 and its request flag is pending (all sources have the same  *)
(* priority: IP0 = IP1 = 0, so handlers never nest).                       *)
(***************************************************************************)
EXTENDS Integers, Sequences, FiniteSets, TLC

(* ------------------------------ bounds -------------------------------- *)
\* longest transfer a caller asks for
MaxLen == 9
\* first storage slot the callers of the model address (0xFE: a transfer of
\* three slots carries from ADR_L into ADR_M)
BaseSlot == 254
\* interrupt requests raised by the hardware in one behaviour
MaxIrq == 2

(* ------------------------- 8-bit arithmetic --------------------------- *)
U8(x) == x % 256

RECURSIVE BitOr(_, _)
BitOr(a, b) ==
  IF a = 0 THEN b
  ELSE IF b = 0 THEN a
  ELSE (IF (a % 2 = 1) \/ (b % 2 = 1) THEN 1 ELSE 0) + 2 * BitOr(a \div 2, b \div 2)

Bit(x, n) == (x \div (2 ^ n)) % 2

\* sbit APP_REQ = RAMMODE^7, APP_EN = RAMMODE^6, APP_RW = RAMMODE^5
APP_EN_Of(rm) == Bit(rm, 6)
APP_RW_Of(rm) == Bit(rm, 5)
\* bits 3-0: byte enables for DATA3..DATA0
LaneEnabled(rm, lane) == Bit(rm, lane) = 1

(* ------------------------------ state --------------------------------- *)
VARIABLES
  \* handshake registers (SFRs)
  ADR_H, ADR_M, ADR_L, ADR_INC, DATA3, DATA2, DATA1, DATA0, RAMMODE,
  \* global interrupt enable (IEN0^7)
  EA,
  \* DGUS VP memory: slot -> lane (3 = MSB .. 0 = LSB) -> byte
  vpmem,
  \* the VP variable the caller transfers: its VP address and byte length
  req,
  \* main context: statement to run next, and the locals of the running call
  pc, addr, len, buf, bi, OS_addr, is_odd, mask,
  \* interrupt request flags and the number of requests raised so far
  pending, nIrq,
  \* state owned by the interrupt handlers
  Wait_Count, SysTick, SysTick_RTC, real_time, Second_Updata_Flag,
  P2_0, Rx_Head, Rx_Buffer, SBUF3_RX,
  \* history of the running (or last) call
  len0, buf0, mem0, EA0, txlog, bufAcc, eaOps, lastWrite,
  \* main context outside the engine: the statement of the calling function
  \* that runs next, the arguments and return value of the running wrapper
  cpc, arg, ret,
  \* Time_Update's locals; the two bytes of a 16-bit read of Wait_Count
  hour_val, min_val, sec_val, tmp,
  \* main.c globals
  last_p1_update, p1_cnt, P1,
  \* observation: the shared object as it was when the running capture began,
  \* the outcome of the reference execution, the hardware has stopped answering
  snap, ref, stuck,
  \* UART5 transmitter (uart.c): the RS485 driver enable, the transmit
  \* register, the transmit-complete flag; main.c's keep-alive timestamp; the
  \* statement of the keep-alive block and the string UART5_SendStr is sending
  RS485_TX_EN, SBUF3_TX, SCON3T_TI, last_keep_alive, ucall,
  \* UART5 receive ring (uart.c, main.c): the consumer's index, main's local c;
  \* observation: the bytes consumed so far, and whether more than 31 bytes
  \* were ever waiting to be consumed
  Rx_Tail, rxc, rxout, rxover

hwregs == <<ADR_H, ADR_M, ADR_L, ADR_INC, DATA3, DATA2, DATA1, DATA0, RAMMODE>>
locals == <<addr, len, buf, bi, OS_addr, is_odd, mask>>
isrvars == <<Wait_Count, SysTick, SysTick_RTC, real_time, Second_Updata_Flag,
             P2_0, Rx_Head, Rx_Buffer>>
irqvars == <<pending, nIrq, SBUF3_RX>>
history == <<len0, buf0, mem0, EA0, txlog, bufAcc, eaOps, lastWrite>>
caller == <<cpc, arg, ret, hour_val, min_val, sec_val, tmp, last_p1_update, p1_cnt, P1>>
probe == <<snap, ref, stuck>>
rxvars == <<Rx_Tail, rxc, rxout, rxover>>
uartvars == <<RS485_TX_EN, SBUF3_TX, SCON3T_TI, last_keep_alive, ucall, rxvars>>
vars == <<hwregs, EA, vpmem, req, pc, locals, irqvars, isrvars, history, caller, probe, uartvars>>

\* VP addresses used by the peripheral wrappers (DWIN_GUI_VP.h)
VP_ADC_INSTANT == 50
VP_LED_CONFIG == 130
VP_PWM0_OUT == 146
\* VP addresses Time_Update writes: 0x2010, 0x2020, 0x2030
TimeVPs == <<8208, 8224, 8240>>
\* slots of the VP variables the main loop and the wrappers transfer
MainSlots ==
  {VP_LED_CONFIG \div 2, VP_PWM0_OUT \div 2}
    \cup {(VP_ADC_INSTANT + 2 * c) \div 2 : c \in 0 .. 7}
    \cup {TimeVPs[j] \div 2 : j \in 1 .. 3}

Lanes == 0 .. 3
Slots == (BaseSlot .. (BaseSlot + (MaxLen \div 4) + 2)) \cup MainSlots
\* the VP addresses of the two words of slot BaseSlot: one even, one odd
Addrs == {2 * BaseSlot, 2 * BaseSlot + 1}
BufIdx == 0 .. (MaxLen + 3)

\* 24-bit slot address held by ADR_H:ADR_M:ADR_L
HwAddr == ADR_H * 65536 + ADR_M * 256 + ADR_L

\* contents of VP memory before the firmware first writes it
InitMem == [s \in Slots |-> [l \in Lanes |-> U8(160 + 4 * (s + 65536 - BaseSlot) + (3 - l))]]
\* a caller's source buffer: distinct bytes, also beyond the requested length
SrcBuf(k) == [i \in BufIdx |-> U8(16 * k + i + 1)]
\* a caller's destination buffer before a read
DstBuf == [i \in BufIdx |-> U8(224 + i)]
SrcKinds == {1, 2}

IRQ == {"T0", "T1", "T2", "UART5"}
RxBytes == {49}

\* lastWrite.seq: 0 = the last completed call was no write, 1 = a write has
\* just returned, 2 = the read that directly followed it is running or returned
NoWrite == [seq |-> 0, addr |-> 0, len |-> 0, data |-> DstBuf]

\* no statement of the keep-alive block and no UART5_SendStr is running
NoSend == [blk |-> 0, str |-> <<>>, i |-> 0, dat |-> 0]

\* no wrapper is running
NoArg == [fn |-> "none", a |-> 0, ptr |-> 0]
\* no 16-bit read of Wait_Count is in progress
NoRead == [n |-> 0, first |-> "hi", hi |-> 0, lo |-> 0]
\* no capture of a shared object is in progress
NoSnap == [tick0 |-> 0, tick1 |-> 0, time0 |-> <<0, 0, 0>>, time1 |-> <<0, 0, 0>>]
\* no reference execution has been recorded
NoRef == [n |-> 0, rw |-> 0, src |-> DstBuf, mem0 |-> InitMem, tx |-> <<>>,
          mem |-> InitMem, out |-> DstBuf, left |-> <<>>]

(* --------------------------- initial state ---------------------------- *)
\* the handshake registers at reset
ResetRegs == <<0, 0, 0, 0, 0, 0, 0, 0, 0>>

\* the handshake registers hold the values r, in the order of hwregs
RegsAre(r) ==
  /\ ADR_H = r[1] /\ ADR_M = r[2] /\ ADR_L = r[3] /\ ADR_INC = r[4]
  /\ DATA3 = r[5] /\ DATA2 = r[6] /\ DATA1 = r[7] /\ DATA0 = r[8]
  /\ RAMMODE = r[9]

\* after INIT_CPU and RTC_Init: interrupts disabled, clock at 12:00:00;
\* req.build names the firmware build whose engine the caller is linked with
\* ("KEIL": src/KEIL/sys.c, "demo": src/demo/T5L_KEIL/sys.c)
InitRest(builds) ==
  /\ EA = 0
  /\ vpmem = InitMem
  /\ req \in [addr : Addrs, len : 0 .. MaxLen, build : builds]
  /\ pc = "idle"
  /\ addr = 0 /\ len = 0 /\ buf = DstBuf /\ bi = 0
  /\ OS_addr = 0 /\ is_odd = 0 /\ mask = 0
  /\ pending = {} /\ nIrq = 0 /\ SBUF3_RX = 0
  /\ Wait_Count = 0 /\ SysTick = 0 /\ SysTick_RTC = 0
  /\ real_time = [year |-> 19, month |-> 5, day |-> 1, week |-> 0,
                  hour |-> 12, min |-> 0, sec |-> 0]
  /\ Second_Updata_Flag = 0
  /\ P2_0 = 1 /\ Rx_Head = 0 /\ Rx_Buffer = [i \in 0 .. 31 |-> 0]
  /\ len0 = 0 /\ buf0 = DstBuf /\ mem0 = InitMem /\ EA0 = 0
  /\ txlog = <<>> /\ bufAcc = <<>> /\ eaOps = <<>>
  /\ lastWrite = NoWrite
  /\ cpc = "main" /\ arg = NoArg /\ ret = 0
  /\ hour_val = 0 /\ min_val = 0 /\ sec_val = 0 /\ tmp = NoRead
  /\ last_p1_update = 0 /\ p1_cnt = 0 /\ P1 = 0
  /\ snap = NoSnap /\ ref = NoRef /\ stuck = FALSE
  /\ RS485_TX_EN = 0 /\ SBUF3_TX = 0 /\ SCON3T_TI = 0 /\ last_keep_alive = 0
  /\ ucall = NoSend
  /\ Rx_Tail = 0 /\ rxc = 0 /\ rxout = <<>> /\ rxover = FALSE

InitState(builds) ==
  /\ RegsAre(ResetRegs)
  /\ InitRest(builds)

Init == InitState({"KEIL"})
InitBuilds == InitState({"KEIL", "demo"})

(* ----------------------- hardware: one transaction -------------------- *)
MemLane(m, s, l) == IF s \in Slots THEN m[s][l] ELSE 0

\* The DGUS bus interface performs the transaction requested by APP_EN = 1:
\* a read loads the enabled lanes of the addressed slot into DATA3..DATA0, a
\* write stores the enabled lanes; the address then advances by ADR_INC and
\* the hardware clears APP_EN.
HW_Transaction ==
  /\ APP_EN_Of(RAMMODE) = 1
  /\ LET a == HwAddr
         rd == APP_RW_Of(RAMMODE) = 1
         na == (a + ADR_INC) % 16777216
     IN /\ DATA3' = IF rd /\ LaneEnabled(RAMMODE, 3) THEN MemLane(vpmem, a, 3) ELSE DATA3
        /\ DATA2' = IF rd /\ LaneEnabled(RAMMODE, 2) THEN MemLane(vpmem, a, 2) ELSE DATA2
        /\ DATA1' = IF rd /\ LaneEnabled(RAMMODE, 1) THEN MemLane(vpmem, a, 1) ELSE DATA1
        /\ DATA0' = IF rd /\ LaneEnabled(RAMMODE, 0) THEN MemLane(vpmem, a, 0) ELSE DATA0
        /\ vpmem' = IF rd \/ a \notin Slots THEN vpmem
                    ELSE [vpmem EXCEPT ![a] =
                           [l \in Lanes |->
                              IF LaneEnabled(RAMMODE, l)
                              THEN (CASE l = 3 -> DATA3 [] l = 2 -> DATA2
                                      [] l = 1 -> DATA1 [] OTHER -> DATA0)
                              ELSE @[l]]]
        /\ ADR_H' = na \div 65536
        /\ ADR_M' = (na \div 256) % 256
        /\ ADR_L' = na % 256
  /\ RAMMODE' = RAMMODE - 64
  /\ UNCHANGED <<req, caller, probe, uartvars, ADR_INC, EA, pc, locals, irqvars, isrvars, history>>

(* --------------------------- engine helpers --------------------------- *)
\* u32 OS_addr = addr >> 1;
SlotOf(a) == a \div 2
\* u8 is_odd = addr & 0x01;
OddOf(a) == a % 2
\* variant: the head block is entered only when two bytes remain
HeadCond_TwoBytes(odd, l) == odd # 0 /\ l > 1
\* if(is_odd && len > 0)
HeadCond(odd, l) == odd # 0 /\ l > 0
\* variant: the loop runs while three bytes remain
BulkCond_Three(l) == l >= 3
\* while(len >= 4)
BulkCond(l) == l >= 4
\* variant: the tail block runs with nothing remaining
TailCond_Always(l) == l >= 0
\* if(len > 0)   (remaining bytes after the loop)
TailCond(l) == l > 0

\* one entry of txlog: the registers as they are when APP_EN is set
TxRecord == [slot |-> HwAddr, rw |-> APP_RW_Of(RAMMODE), mask |-> RAMMODE % 16,
             data |-> <<DATA3, DATA2, DATA1, DATA0>>]

(* ----------------------- callers of the engine ------------------------ *)

\* T0_Init: ET0 = 1; EA = 1; TR0 = 1;  (the caller enables interrupts)
T0_Init ==
  /\ pc = "idle" /\ EA = 0
  /\ EA' = 1
  /\ UNCHANGED <<req, caller, probe, uartvars, hwregs, vpmem, pc, locals, irqvars, isrvars, history>>

\* entry of a call: parameters, the locals computed in the declarations, and
\* the history of the new call
Enter(a, l, b, first) ==
  /\ pc = "idle"
  /\ req.build = (IF first \in {"w_ea0", "r_ea0"} THEN "KEIL" ELSE "demo")
  /\ pc' = first
  /\ addr' = a /\ len' = l /\ buf' = b /\ bi' = 0
  /\ OS_addr' = SlotOf(a) /\ is_odd' = OddOf(a) /\ mask' = 0
  /\ len0' = l /\ buf0' = b /\ mem0' = vpmem /\ EA0' = EA
  /\ txlog' = <<>> /\ bufAcc' = <<>> /\ eaOps' = <<>>
  /\ UNCHANGED <<hwregs, EA, vpmem, req, probe, uartvars, irqvars, isrvars>>

\* a caller invokes write_dgus_vp(addr, vbuf, len)
Call_write_dgus_vp ==
  \E k \in SrcKinds :
    /\ cpc = "main"
    /\ Enter(req.addr, req.len, SrcBuf(k), "w_ea0")
    /\ lastWrite' = NoWrite
    /\ UNCHANGED caller

\* a caller invokes read_dgus_vp(addr, vbuf, len)
Call_read_dgus_vp ==
  /\ cpc = "main"
  /\ Enter(req.addr, req.len, DstBuf, "r_ea0")
  /\ lastWrite' = IF lastWrite.seq = 1 THEN [lastWrite EXCEPT !.seq = 2] ELSE NoWrite
  /\ UNCHANGED caller

(* ------------------- write_dgus_vp (src/KEIL/sys.c) ------------------- *)
\* statement that follows the alignment block, and each loop iteration
WAfter(l) ==
  IF BulkCond(l) THEN "w_b_mode" ELSE IF TailCond(l) THEN "w_t_load" ELSE "w_rel"

\* variant: the call does not disable interrupts
write_dgus_vp_disable_Missing ==
  /\ pc = "w_ea0"
  /\ EA' = EA
  /\ eaOps' = Append(eaOps, "disable")
  /\ pc' = "w_adr"
  /\ UNCHANGED <<req, caller, probe, uartvars, hwregs, vpmem, locals, irqvars, isrvars,
                 len0, buf0, mem0, EA0, txlog, bufAcc, lastWrite>>

\* EA = 0;
write_dgus_vp_disable ==
  /\ pc = "w_ea0"
  /\ EA' = 0
  /\ eaOps' = Append(eaOps, "disable")
  /\ pc' = "w_adr"
  /\ UNCHANGED <<req, caller, probe, uartvars, hwregs, vpmem, locals, irqvars, isrvars,
                 len0, buf0, mem0, EA0, txlog, bufAcc, lastWrite>>

\* variant: the call keeps the address the registers already hold
write_dgus_vp_set_addr_Stale ==
  /\ pc = "w_adr"
  /\ pc' = "w_inc"
  /\ UNCHANGED <<req, caller, probe, uartvars, hwregs, EA, vpmem, locals, irqvars, isrvars, history>>

\* ADR_H = (u8)(OS_addr >> 16); ADR_M = (u8)(OS_addr >> 8); ADR_L = (u8)OS_addr;
write_dgus_vp_set_addr ==
  /\ pc = "w_adr"
  /\ ADR_H' = U8(OS_addr \div 65536)
  /\ ADR_M' = U8(OS_addr \div 256)
  /\ ADR_L' = U8(OS_addr)
  /\ pc' = "w_inc"
  /\ UNCHANGED <<req, caller, probe, uartvars, ADR_INC, DATA3, DATA2, DATA1, DATA0, RAMMODE, EA, vpmem,
                 locals, irqvars, isrvars, history>>

\* variant: a zero-length request returns early, without restoring EA
write_dgus_vp_auto_inc_EarlyReturn ==
  /\ pc = "w_inc"
  /\ ADR_INC' = 1
  /\ pc' = IF len = 0 THEN "idle"
           ELSE IF HeadCond(is_odd, len) THEN "w_h_inc0" ELSE WAfter(len)
  /\ UNCHANGED <<req, caller, probe, uartvars, ADR_H, ADR_M, ADR_L, DATA3, DATA2, DATA1, DATA0, RAMMODE, EA,
                 vpmem, locals, irqvars, isrvars, history>>

\* ADR_INC = 0x01;  then  if(is_odd && len > 0)
write_dgus_vp_auto_inc ==
  /\ pc = "w_inc"
  /\ ADR_INC' = 1
  /\ pc' = IF HeadCond(is_odd, len) THEN "w_h_inc0" ELSE WAfter(len)
  /\ UNCHANGED <<req, caller, probe, uartvars, ADR_H, ADR_M, ADR_L, DATA3, DATA2, DATA1, DATA0, RAMMODE, EA,
                 vpmem, locals, irqvars, isrvars, history>>

\* ADR_INC = 0x00; mask = 0x00;
write_dgus_vp_head_inc_off ==
  /\ pc = "w_h_inc0"
  /\ ADR_INC' = 0
  /\ mask' = 0
  /\ pc' = "w_h_load"
  /\ UNCHANGED <<req, caller, probe, uartvars, ADR_H, ADR_M, ADR_L, DATA3, DATA2, DATA1, DATA0, RAMMODE, EA,
                 vpmem, addr, len, buf, bi, OS_addr, is_odd, irqvars, isrvars, history>>

\* if(len > 0) { DATA1 = *buf++; mask |= 0x02; len--; }
\* if(len > 0) { DATA0 = *buf++; mask |= 0x01; len--; }   then  if(mask)
write_dgus_vp_head_load ==
  /\ pc = "w_h_load"
  /\ LET t1 == len > 0
         l1 == IF t1 THEN len - 1 ELSE len
         b1 == IF t1 THEN bi + 1 ELSE bi
         m1 == IF t1 THEN BitOr(mask, 2) ELSE mask
         t0 == l1 > 0
         l2 == IF t0 THEN l1 - 1 ELSE l1
         b2 == IF t0 THEN b1 + 1 ELSE b1
         m2 == IF t0 THEN BitOr(m1, 1) ELSE m1
     IN /\ DATA1' = IF t1 THEN buf[bi] ELSE DATA1
        /\ DATA0' = IF t0 THEN buf[b1] ELSE DATA0
        /\ bufAcc' = bufAcc \o (IF t1 THEN <<bi>> ELSE <<>>) \o (IF t0 THEN <<b1>> ELSE <<>>)
        /\ len' = l2 /\ bi' = b2 /\ mask' = m2
        /\ pc' = IF m2 # 0 THEN "w_h_mode" ELSE "w_h_adr"
  /\ UNCHANGED <<req, caller, probe, uartvars, ADR_H, ADR_M, ADR_L, ADR_INC, DATA3, DATA2, RAMMODE, EA, vpmem,
                 addr, buf, OS_addr, is_odd, irqvars, isrvars,
                 len0, buf0, mem0, EA0, txlog, eaOps, lastWrite>>

\* RAMMODE = 0x80 | mask;
write_dgus_vp_head_mode ==
  /\ pc = "w_h_mode"
  /\ RAMMODE' = BitOr(128, mask)
  /\ pc' = "w_h_start"
  /\ UNCHANGED <<req, caller, probe, uartvars, ADR_H, ADR_M, ADR_L, ADR_INC, DATA3, DATA2, DATA1, DATA0, EA,
                 vpmem, locals, irqvars, isrvars, history>>

\* APP_EN = 1;
StartTransaction(next) ==
  /\ RAMMODE' = BitOr(RAMMODE, 64)
  /\ txlog' = Append(txlog, TxRecord)
  /\ pc' = next
  /\ UNCHANGED <<req, caller, probe, uartvars, ADR_H, ADR_M, ADR_L, ADR_INC, DATA3, DATA2, DATA1, DATA0, EA,
                 vpmem, locals, irqvars, isrvars,
                 len0, buf0, mem0, EA0, bufAcc, eaOps, lastWrite>>

\* variant: the engine does not wait for the hardware
PollDone_NoWait == TRUE
\* while(APP_EN);   leaves the loop once the hardware has cleared APP_EN
PollDone == APP_EN_Of(RAMMODE) = 0

write_dgus_vp_head_start ==
  /\ pc = "w_h_start"
  /\ StartTransaction("w_h_wait")

\* while(APP_EN);
write_dgus_vp_head_wait ==
  /\ pc = "w_h_wait"
  /\ PollDone
  /\ pc' = "w_h_adr"
  /\ UNCHANGED <<req, caller, probe, uartvars, hwregs, EA, vpmem, locals, irqvars, isrvars, history>>

\* OS_addr++; ADR_H = ...; ADR_M = ...; ADR_L = (u8)OS_addr;
\* (OS_addr = addr >> 1 is below 2^31, so the u32 increment cannot wrap)
write_dgus_vp_head_next_addr ==
  /\ pc = "w_h_adr"
  /\ LET n == OS_addr + 1
     IN /\ OS_addr' = n
        /\ ADR_H' = U8(n \div 65536)
        /\ ADR_M' = U8(n \div 256)
        /\ ADR_L' = U8(n)
  /\ pc' = "w_h_inc1"
  /\ UNCHANGED <<req, caller, probe, uartvars, ADR_INC, DATA3, DATA2, DATA1, DATA0, RAMMODE, EA, vpmem,
                 addr, len, buf, bi, is_odd, mask, irqvars, isrvars, history>>

\* variant: auto-increment is not re-enabled after the head
write_dgus_vp_head_inc_on_Missing ==
  /\ pc = "w_h_inc1"
  /\ ADR_INC' = ADR_INC
  /\ pc' = WAfter(len)
  /\ UNCHANGED <<req, caller, probe, uartvars, ADR_H, ADR_M, ADR_L, DATA3, DATA2, DATA1, DATA0, RAMMODE, EA,
                 vpmem, locals, irqvars, isrvars, history>>

\* ADR_INC = 0x01;   then  while(len >= 4)
write_dgus_vp_head_inc_on ==
  /\ pc = "w_h_inc1"
  /\ ADR_INC' = 1
  /\ pc' = WAfter(len)
  /\ UNCHANGED <<req, caller, probe, uartvars, ADR_H, ADR_M, ADR_L, DATA3, DATA2, DATA1, DATA0, RAMMODE, EA,
                 vpmem, locals, irqvars, isrvars, history>>

\* RAMMODE = 0x8F;
write_dgus_vp_bulk_mode ==
  /\ pc = "w_b_mode"
  /\ RAMMODE' = 143
  /\ pc' = "w_b_load"
  /\ UNCHANGED <<req, caller, probe, uartvars, ADR_H, ADR_M, ADR_L, ADR_INC, DATA3, DATA2, DATA1, DATA0, EA,
                 vpmem, locals, irqvars, isrvars, history>>

\* DATA3 = *buf++; DATA2 = *buf++; DATA1 = *buf++; DATA0 = *buf++;
write_dgus_vp_bulk_load ==
  /\ pc = "w_b_load"
  /\ DATA3' = buf[bi] /\ DATA2' = buf[bi + 1]
  /\ DATA1' = buf[bi + 2] /\ DATA0' = buf[bi + 3]
  /\ bufAcc' = bufAcc \o <<bi, bi + 1, bi + 2, bi + 3>>
  /\ bi' = bi + 4
  /\ pc' = "w_b_start"
  /\ UNCHANGED <<req, caller, probe, uartvars, ADR_H, ADR_M, ADR_L, ADR_INC, RAMMODE, EA, vpmem,
                 addr, len, buf, OS_addr, is_odd, mask, irqvars, isrvars,
                 len0, buf0, mem0, EA0, txlog, eaOps, lastWrite>>

write_dgus_vp_bulk_start ==
  /\ pc = "w_b_start"
  /\ StartTransaction("w_b_wait")

\* while(APP_EN); len -= 4;   then  while(len >= 4)
write_dgus_vp_bulk_wait ==
  /\ pc = "w_b_wait"
  /\ PollDone
  /\ len' = (len - 4) % 65536
  /\ pc' = WAfter((len - 4) % 65536)
  /\ UNCHANGED <<req, caller, probe, uartvars, hwregs, EA, vpmem, addr, buf, bi, OS_addr, is_odd, mask,
                 irqvars, isrvars, history>>

\* mask = 0x00;
\* if(len > 0) { DATA3 = *buf++; mask |= 0x08; }
\* if(len > 1) { DATA2 = *buf++; mask |= 0x04; }
\* if(len > 2) { DATA1 = *buf++; mask |= 0x02; }
TailLanes(l) == (IF l > 0 THEN 1 ELSE 0) + (IF l > 1 THEN 1 ELSE 0) + (IF l > 2 THEN 1 ELSE 0)
\* variant: only lane 3 is ever enabled in the tail
TailMask_Lane3(l) == IF l > 0 THEN 8 ELSE 0
\* variant: the third remaining byte enables lane 0 instead of lane 1
TailMask_Lane0(l) ==
  BitOr(BitOr(IF l > 0 THEN 8 ELSE 0, IF l > 1 THEN 4 ELSE 0), IF l > 2 THEN 1 ELSE 0)
TailMask(l) ==
  BitOr(BitOr(IF l > 0 THEN 8 ELSE 0, IF l > 1 THEN 4 ELSE 0), IF l > 2 THEN 2 ELSE 0)

write_dgus_vp_tail_load ==
  /\ pc = "w_t_load"
  /\ LET n == TailLanes(len)
     IN /\ DATA3' = IF n >= 1 THEN buf[bi] ELSE DATA3
        /\ DATA2' = IF n >= 2 THEN buf[bi + 1] ELSE DATA2
        /\ DATA1' = IF n >= 3 THEN buf[bi + 2] ELSE DATA1
        /\ bufAcc' = bufAcc \o [j \in 1 .. n |-> bi + j - 1]
        /\ bi' = bi + n
  /\ mask' = TailMask(len)
  /\ pc' = "w_t_mode"
  /\ UNCHANGED <<req, caller, probe, uartvars, ADR_H, ADR_M, ADR_L, ADR_INC, DATA0, RAMMODE, EA, vpmem,
                 addr, len, buf, OS_addr, is_odd, irqvars, isrvars,
                 len0, buf0, mem0, EA0, txlog, eaOps, lastWrite>>

\* variant: the tail is written with all four lanes enabled
write_dgus_vp_tail_mode_Full ==
  /\ pc = "w_t_mode"
  /\ RAMMODE' = 143
  /\ pc' = "w_t_start"
  /\ UNCHANGED <<req, caller, probe, uartvars, ADR_H, ADR_M, ADR_L, ADR_INC, DATA3, DATA2, DATA1, DATA0, EA,
                 vpmem, locals, irqvars, isrvars, history>>

\* RAMMODE = 0x80 | mask;
write_dgus_vp_tail_mode ==
  /\ pc = "w_t_mode"
  /\ RAMMODE' = BitOr(128, mask)
  /\ pc' = "w_t_start"
  /\ UNCHANGED <<req, caller, probe, uartvars, ADR_H, ADR_M, ADR_L, ADR_INC, DATA3, DATA2, DATA1, DATA0, EA,
                 vpmem, locals, irqvars, isrvars, history>>

write_dgus_vp_tail_start ==
  /\ pc = "w_t_start"
  /\ StartTransaction("w_t_wait")

\* while(APP_EN);
write_dgus_vp_tail_wait ==
  /\ pc = "w_t_wait"
  /\ PollDone
  /\ pc' = "w_rel"
  /\ UNCHANGED <<req, caller, probe, uartvars, hwregs, EA, vpmem, locals, irqvars, isrvars, history>>

\* variant: the call returns without releasing the bus
write_dgus_vp_release_Missing ==
  /\ pc = "w_rel"
  /\ pc' = "w_ea1"
  /\ UNCHANGED <<req, caller, probe, uartvars, hwregs, EA, vpmem, locals, irqvars, isrvars, history>>

\* RAMMODE = 0x00;
write_dgus_vp_release ==
  /\ pc = "w_rel"
  /\ RAMMODE' = 0
  /\ pc' = "w_ea1"
  /\ UNCHANGED <<req, caller, probe, uartvars, ADR_H, ADR_M, ADR_L, ADR_INC, DATA3, DATA2, DATA1, DATA0, EA,
                 vpmem, locals, irqvars, isrvars, history>>

\* value the engine stores to EA on exit:  EA = 1;
ExitEA(entry) == 1

\* EA = 1;  and return to the caller
write_dgus_vp_restore ==
  /\ pc = "w_ea1"
  /\ EA' = ExitEA(EA0)
  /\ eaOps' = Append(eaOps, "restore")
  /\ lastWrite' = [seq |-> 1, addr |-> addr, len |-> len0, data |-> buf0]
  /\ pc' = "idle"
  /\ UNCHANGED <<req, caller, probe, uartvars, hwregs, vpmem, locals, irqvars, isrvars,
                 len0, buf0, mem0, EA0, txlog, bufAcc>>

write_dgus_vp ==
  \/ write_dgus_vp_disable \/ write_dgus_vp_set_addr \/ write_dgus_vp_auto_inc
  \/ write_dgus_vp_head_inc_off \/ write_dgus_vp_head_load
  \/ write_dgus_vp_head_mode \/ write_dgus_vp_head_start \/ write_dgus_vp_head_wait
  \/ write_dgus_vp_head_next_addr \/ write_dgus_vp_head_inc_on
  \/ write_dgus_vp_bulk_mode \/ write_dgus_vp_bulk_load
  \/ write_dgus_vp_bulk_start \/ write_dgus_vp_bulk_wait
  \/ write_dgus_vp_tail_load \/ write_dgus_vp_tail_mode
  \/ write_dgus_vp_tail_start \/ write_dgus_vp_tail_wait
  \/ write_dgus_vp_release \/ write_dgus_vp_restore

(* -------------------- read_dgus_vp (src/KEIL/sys.c) ------------------- *)
RAfter(l) ==
  IF BulkCond(l) THEN "r_b_mode" ELSE IF TailCond(l) THEN "r_t_mode" ELSE "r_rel"

\* EA = 0;
read_dgus_vp_disable ==
  /\ pc = "r_ea0"
  /\ EA' = 0
  /\ eaOps' = Append(eaOps, "disable")
  /\ pc' = "r_adr"
  /\ UNCHANGED <<req, caller, probe, uartvars, hwregs, vpmem, locals, irqvars, isrvars,
                 len0, buf0, mem0, EA0, txlog, bufAcc, lastWrite>>

\* ADR_H = (u8)(OS_addr >> 16); ADR_M = (u8)(OS_addr >> 8); ADR_L = (u8)OS_addr;
read_dgus_vp_set_addr ==
  /\ pc = "r_adr"
  /\ ADR_H' = U8(OS_addr \div 65536)
  /\ ADR_M' = U8(OS_addr \div 256)
  /\ ADR_L' = U8(OS_addr)
  /\ pc' = "r_inc"
  /\ UNCHANGED <<req, caller, probe, uartvars, ADR_INC, DATA3, DATA2, DATA1, DATA0, RAMMODE, EA, vpmem,
                 locals, irqvars, isrvars, history>>

\* ADR_INC = 0x01;  then  if(is_odd && len > 0)
read_dgus_vp_auto_inc ==
  /\ pc = "r_inc"
  /\ ADR_INC' = 1
  /\ pc' = IF HeadCond(is_odd, len) THEN "r_h_inc0" ELSE RAfter(len)
  /\ UNCHANGED <<req, caller, probe, uartvars, ADR_H, ADR_M, ADR_L, DATA3, DATA2, DATA1, DATA0, RAMMODE, EA,
                 vpmem, locals, irqvars, isrvars, history>>

\* ADR_INC = 0x00;
read_dgus_vp_head_inc_off ==
  /\ pc = "r_h_inc0"
  /\ ADR_INC' = 0
  /\ pc' = "r_h_mode"
  /\ UNCHANGED <<req, caller, probe, uartvars, ADR_H, ADR_M, ADR_L, DATA3, DATA2, DATA1, DATA0, RAMMODE, EA,
                 vpmem, locals, irqvars, isrvars, history>>

\* variant: a read enables only the two low lanes
ReadMode_LowLanes(next) ==
  /\ RAMMODE' = 163
  /\ pc' = next
  /\ UNCHANGED <<req, caller, probe, uartvars, ADR_H, ADR_M, ADR_L, ADR_INC, DATA3, DATA2, DATA1, DATA0, EA,
                 vpmem, locals, irqvars, isrvars, history>>

\* RAMMODE = 0xAF;
ReadMode(next) ==
  /\ RAMMODE' = 175
  /\ pc' = next
  /\ UNCHANGED <<req, caller, probe, uartvars, ADR_H, ADR_M, ADR_L, ADR_INC, DATA3, DATA2, DATA1, DATA0, EA,
                 vpmem, locals, irqvars, isrvars, history>>

read_dgus_vp_head_mode ==
  /\ pc = "r_h_mode"
  /\ ReadMode("r_h_start")

read_dgus_vp_head_start ==
  /\ pc = "r_h_start"
  /\ StartTransaction("r_h_wait")

\* while(APP_EN);
read_dgus_vp_head_wait ==
  /\ pc = "r_h_wait"
  /\ PollDone
  /\ pc' = "r_h_store"
  /\ UNCHANGED <<req, caller, probe, uartvars, hwregs, EA, vpmem, locals, irqvars, isrvars, history>>

\* if(len > 0) { *buf++ = DATA1; len--; }
\* if(len > 0) { *buf++ = DATA0; len--; }
read_dgus_vp_head_store ==
  /\ pc = "r_h_store"
  /\ LET t1 == len > 0
         l1 == IF t1 THEN len - 1 ELSE len
         b1 == IF t1 THEN bi + 1 ELSE bi
         u1 == IF t1 THEN [buf EXCEPT ![bi] = DATA1] ELSE buf
         t0 == l1 > 0
         l2 == IF t0 THEN l1 - 1 ELSE l1
         b2 == IF t0 THEN b1 + 1 ELSE b1
         u2 == IF t0 THEN [u1 EXCEPT ![b1] = DATA0] ELSE u1
     IN /\ buf' = u2 /\ len' = l2 /\ bi' = b2
        /\ bufAcc' = bufAcc \o (IF t1 THEN <<bi>> ELSE <<>>) \o (IF t0 THEN <<b1>> ELSE <<>>)
  /\ pc' = "r_h_adr"
  /\ UNCHANGED <<req, caller, probe, uartvars, hwregs, EA, vpmem, addr, OS_addr, is_odd, mask, irqvars, isrvars,
                 len0, buf0, mem0, EA0, txlog, eaOps, lastWrite>>

\* variant: OS_addr is advanced but the address registers are not reprogrammed
read_dgus_vp_head_next_addr_NoReprogram ==
  /\ pc = "r_h_adr"
  /\ OS_addr' = OS_addr + 1
  /\ pc' = "r_h_inc1"
  /\ UNCHANGED <<req, caller, probe, uartvars, hwregs, EA, vpmem,
                 addr, len, buf, bi, is_odd, mask, irqvars, isrvars, history>>

\* OS_addr++; ADR_H = ...; ADR_M = ...; ADR_L = (u8)OS_addr;
\* (OS_addr = addr >> 1 is below 2^31, so the u32 increment cannot wrap)
read_dgus_vp_head_next_addr ==
  /\ pc = "r_h_adr"
  /\ LET n == OS_addr + 1
     IN /\ OS_addr' = n
        /\ ADR_H' = U8(n \div 65536)
        /\ ADR_M' = U8(n \div 256)
        /\ ADR_L' = U8(n)
  /\ pc' = "r_h_inc1"
  /\ UNCHANGED <<req, caller, probe, uartvars, ADR_INC, DATA3, DATA2, DATA1, DATA0, RAMMODE, EA, vpmem,
                 addr, len, buf, bi, is_odd, mask, irqvars, isrvars, history>>

\* ADR_INC = 0x01;   then  while(len >= 4)
read_dgus_vp_head_inc_on ==
  /\ pc = "r_h_inc1"
  /\ ADR_INC' = 1
  /\ pc' = RAfter(len)
  /\ UNCHANGED <<req, caller, probe, uartvars, ADR_H, ADR_M, ADR_L, DATA3, DATA2, DATA1, DATA0, RAMMODE, EA,
                 vpmem, locals, irqvars, isrvars, history>>

read_dgus_vp_bulk_mode ==
  /\ pc = "r_b_mode"
  /\ ReadMode("r_b_start")

read_dgus_vp_bulk_start ==
  /\ pc = "r_b_start"
  /\ StartTransaction("r_b_wait")

\* while(APP_EN);
read_dgus_vp_bulk_wait ==
  /\ pc = "r_b_wait"
  /\ PollDone
  /\ pc' = "r_b_store"
  /\ UNCHANGED <<req, caller, probe, uartvars, hwregs, EA, vpmem, locals, irqvars, isrvars, history>>

\* *buf++ = DATA3; *buf++ = DATA2; *buf++ = DATA1; *buf++ = DATA0; len -= 4;
\* then  while(len >= 4)
read_dgus_vp_bulk_store ==
  /\ pc = "r_b_store"
  /\ buf' = [buf EXCEPT ![bi] = DATA3, ![bi + 1] = DATA2,
                        ![bi + 2] = DATA1, ![bi + 3] = DATA0]
  /\ bufAcc' = bufAcc \o <<bi, bi + 1, bi + 2, bi + 3>>
  /\ bi' = bi + 4
  /\ len' = (len - 4) % 65536
  /\ pc' = RAfter((len - 4) % 65536)
  /\ UNCHANGED <<req, caller, probe, uartvars, hwregs, EA, vpmem, addr, OS_addr, is_odd, mask, irqvars, isrvars,
                 len0, buf0, mem0, EA0, txlog, eaOps, lastWrite>>

read_dgus_vp_tail_mode ==
  /\ pc = "r_t_mode"
  /\ ReadMode("r_t_start")

read_dgus_vp_tail_start ==
  /\ pc = "r_t_start"
  /\ StartTransaction("r_t_wait")

\* while(APP_EN);
read_dgus_vp_tail_wait ==
  /\ pc = "r_t_wait"
  /\ PollDone
  /\ pc' = "r_t_store"
  /\ UNCHANGED <<req, caller, probe, uartvars, hwregs, EA, vpmem, locals, irqvars, isrvars, history>>

\* if(len > 0) *buf++ = DATA3;
\* if(len > 1) *buf++ = DATA2;
\* if(len > 2) *buf++ = DATA1;
read_dgus_vp_tail_store ==
  /\ pc = "r_t_store"
  /\ LET n == TailLanes(len)
     IN /\ buf' = [i \in BufIdx |->
                     IF n >= 1 /\ i = bi THEN DATA3
                     ELSE IF n >= 2 /\ i = bi + 1 THEN DATA2
                     ELSE IF n >= 3 /\ i = bi + 2 THEN DATA1
                     ELSE buf[i]]
        /\ bufAcc' = bufAcc \o [j \in 1 .. n |-> bi + j - 1]
        /\ bi' = bi + n
  /\ pc' = "r_rel"
  /\ UNCHANGED <<req, caller, probe, uartvars, hwregs, EA, vpmem, addr, len, OS_addr, is_odd, mask, irqvars, isrvars,
                 len0, buf0, mem0, EA0, txlog, eaOps, lastWrite>>

\* RAMMODE = 0x00;
read_dgus_vp_release ==
  /\ pc = "r_rel"
  /\ RAMMODE' = 0
  /\ pc' = "r_ea1"
  /\ UNCHANGED <<req, caller, probe, uartvars, ADR_H, ADR_M, ADR_L, ADR_INC, DATA3, DATA2, DATA1, DATA0, EA,
                 vpmem, locals, irqvars, isrvars, history>>

\* EA = 1;  and return to the caller
read_dgus_vp_restore ==
  /\ pc = "r_ea1"
  /\ EA' = ExitEA(EA0)
  /\ eaOps' = Append(eaOps, "restore")
  /\ pc' = "idle"
  /\ UNCHANGED <<req, caller, probe, uartvars, hwregs, vpmem, locals, irqvars, isrvars,
                 len0, buf0, mem0, EA0, txlog, bufAcc, lastWrite>>

read_dgus_vp ==
  \/ read_dgus_vp_disable \/ read_dgus_vp_set_addr \/ read_dgus_vp_auto_inc
  \/ read_dgus_vp_head_inc_off \/ read_dgus_vp_head_mode
  \/ read_dgus_vp_head_start \/ read_dgus_vp_head_wait \/ read_dgus_vp_head_store
  \/ read_dgus_vp_head_next_addr \/ read_dgus_vp_head_inc_on
  \/ read_dgus_vp_bulk_mode \/ read_dgus_vp_bulk_start
  \/ read_dgus_vp_bulk_wait \/ read_dgus_vp_bulk_store
  \/ read_dgus_vp_tail_mode \/ read_dgus_vp_tail_start
  \/ read_dgus_vp_tail_wait \/ read_dgus_vp_tail_store
  \/ read_dgus_vp_release \/ read_dgus_vp_restore

(* ----------------------------- interrupts ----------------------------- *)
\* The hardware raises an interrupt request (TF0, TF1, TF2 or the UART5
\* receive flag SCON3R.0; a received byte is latched in SBUF3_RX).
RaiseIrq ==
  \E i \in IRQ :
    /\ nIrq < MaxIrq
    /\ i \notin pending
    /\ pending' = pending \cup {i}
    /\ nIrq' = nIrq + 1
    /\ IF i = "UART5" THEN SBUF3_RX' \in RxBytes ELSE SBUF3_RX' = SBUF3_RX
    /\ UNCHANGED <<req, caller, probe, uartvars, hwregs, EA, vpmem, pc, locals, isrvars, history>>

\* variant: the handlers' entry switches the address auto-increment off
Vector_Clobber(i) ==
  /\ EA = 1
  /\ i \in pending
  /\ pending' = pending \ {i}
  /\ ADR_INC' = 0
  /\ UNCHANGED <<req, caller, probe, uartvars, ADR_H, ADR_M, ADR_L, DATA3, DATA2, DATA1, DATA0,
                 RAMMODE, EA, vpmem, pc, locals, nIrq, SBUF3_RX, history>>

\* variant: the handlers' entry overwrites the data register of lane 3
Vector_Data(i) ==
  /\ EA = 1
  /\ i \in pending
  /\ pending' = pending \ {i}
  /\ DATA3' = 0
  /\ UNCHANGED <<req, caller, probe, uartvars, ADR_H, ADR_M, ADR_L, ADR_INC, DATA2, DATA1, DATA0,
                 RAMMODE, EA, vpmem, pc, locals, nIrq, SBUF3_RX, history>>

\* a handler is entered between two statements of the main context, only
\* while the global enable EA is set
Vector(i) ==
  /\ EA = 1
  /\ i \in pending
  /\ pending' = pending \ {i}
  /\ UNCHANGED <<req, caller, probe, uartvars, hwregs, EA, vpmem, pc, locals, nIrq, SBUF3_RX, history>>

\* Wait_Count++; if(SysTick > 0) SysTick--;
T0_ISR_PC ==
  /\ Vector("T0")
  /\ Wait_Count' = (Wait_Count + 1) % 65536
  /\ SysTick' = IF SysTick > 0 THEN SysTick - 1 ELSE SysTick
  /\ UNCHANGED <<SysTick_RTC, real_time, Second_Updata_Flag, P2_0, Rx_Head, Rx_Buffer>>

\* variant: the hour counts up to 24 before it wraps
RTC_Second_Hour24(t) ==
  LET s1 == U8(t.sec + 1)
      m1 == U8(t.min + 1)
      h1 == U8(t.hour + 1)
  IN IF s1 <= 59 THEN [t EXCEPT !.sec = s1]
     ELSE IF m1 <= 59 THEN [t EXCEPT !.sec = 0, !.min = m1]
     ELSE IF h1 <= 24 THEN [t EXCEPT !.sec = 0, !.min = 0, !.hour = h1]
     ELSE [t EXCEPT !.sec = 0, !.min = 0, !.hour = 0, !.day = U8(t.day + 1)]

\* the software clock advanced by one second
RTC_Second(t) ==
  LET s1 == U8(t.sec + 1)
      m1 == U8(t.min + 1)
      h1 == U8(t.hour + 1)
  IN IF s1 <= 59 THEN [t EXCEPT !.sec = s1]
     ELSE IF m1 <= 59 THEN [t EXCEPT !.sec = 0, !.min = m1]
     ELSE IF h1 <= 23 THEN [t EXCEPT !.sec = 0, !.min = 0, !.hour = h1]
     ELSE [t EXCEPT !.sec = 0, !.min = 0, !.hour = 0, !.day = U8(t.day + 1)]

\* variant: the second is counted one tick early
T1_ISR_PC_Early ==
  /\ Vector("T1")
  /\ LET n == (SysTick_RTC + 1) % 65536
     IN IF n >= 999
        THEN /\ SysTick_RTC' = 0
             /\ real_time' = RTC_Second(real_time)
             /\ Second_Updata_Flag' = 1
        ELSE /\ SysTick_RTC' = n
             /\ UNCHANGED <<real_time, Second_Updata_Flag>>
  /\ UNCHANGED <<Wait_Count, SysTick, P2_0, Rx_Head, Rx_Buffer>>

\* SysTick_RTC++; if(SysTick_RTC >= 1000) { ...; Second_Updata_Flag = 1; }
T1_ISR_PC ==
  /\ Vector("T1")
  /\ LET n == (SysTick_RTC + 1) % 65536
     IN IF n >= 1000
        THEN /\ SysTick_RTC' = 0
             /\ real_time' = RTC_Second(real_time)
             /\ Second_Updata_Flag' = 1
        ELSE /\ SysTick_RTC' = n
             /\ UNCHANGED <<real_time, Second_Updata_Flag>>
  /\ UNCHANGED <<Wait_Count, SysTick, P2_0, Rx_Head, Rx_Buffer>>

\* TF2 = 0; P2_0 = !P2_0;
T2_ISR_PC ==
  /\ Vector("T2")
  /\ P2_0' = 1 - P2_0
  /\ UNCHANGED <<Wait_Count, SysTick, SysTick_RTC, real_time, Second_Updata_Flag,
                 Rx_Head, Rx_Buffer>>

\* variant: the head index wraps after 16 entries
UART5_RX_ISR_PC_Wrap16 ==
  /\ Vector("UART5")
  /\ Rx_Buffer' = [Rx_Buffer EXCEPT ![Rx_Head] = SBUF3_RX]
  /\ Rx_Head' = (Rx_Head + 1) % 16
  /\ UNCHANGED <<Wait_Count, SysTick, SysTick_RTC, real_time, Second_Updata_Flag, P2_0>>

\* res = SBUF3_RX; Rx_Buffer[Rx_Head] = res; Rx_Head = (Rx_Head + 1) & 0x1F;
UART5_RX_ISR_PC ==
  /\ Vector("UART5")
  /\ Rx_Buffer' = [Rx_Buffer EXCEPT ![Rx_Head] = SBUF3_RX]
  /\ Rx_Head' = (Rx_Head + 1) % 32
  /\ UNCHANGED <<Wait_Count, SysTick, SysTick_RTC, real_time, Second_Updata_Flag, P2_0>>

(* --------------------------- specification ---------------------------- *)
Next ==
  \/ T0_Init
  \/ Call_write_dgus_vp \/ Call_read_dgus_vp
  \/ write_dgus_vp \/ read_dgus_vp
  \/ HW_Transaction
  \/ RaiseIrq
  \/ T0_ISR_PC \/ T1_ISR_PC \/ T2_ISR_PC \/ UART5_RX_ISR_PC

Spec == Init /\ [][Next]_vars

\* the processor keeps executing the statements of a running call, and the bus
\* interface completes every transaction it was asked for
SpecFair ==
  /\ Spec
  /\ WF_vars(write_dgus_vp) /\ WF_vars(read_dgus_vp) /\ WF_vars(HW_Transaction)

(* --------- write_dgus_vp / read_dgus_vp (src/demo/T5L_KEIL/sys.c) ------ *)
\* a caller of the demo build invokes write_dgus_vp(addr, vbuf, len)
Call_demo_write_dgus_vp ==
  \E k \in SrcKinds :
    /\ Enter(req.addr, req.len, SrcBuf(k), "dw_adr")
    /\ lastWrite' = NoWrite
    /\ UNCHANGED caller

\* a caller of the demo build invokes read_dgus_vp(addr, vbuf, len)
Call_demo_read_dgus_vp ==
  /\ Enter(req.addr, req.len, DstBuf, "dr_adr")
  /\ lastWrite' = NoWrite
  /\ UNCHANGED caller

\* ADR_H = (u8)(OS_addr >> 16); ADR_M = (u8)(OS_addr >> 8); ADR_L = (u8)OS_addr;
DemoSetAddr(next) ==
  /\ ADR_H' = U8(OS_addr \div 65536)
  /\ ADR_M' = U8(OS_addr \div 256)
  /\ ADR_L' = U8(OS_addr)
  /\ pc' = next
  /\ UNCHANGED <<req, caller, probe, uartvars, ADR_INC, DATA3, DATA2, DATA1, DATA0, RAMMODE, EA, vpmem,
                 locals, irqvars, isrvars, history>>

\* ADR_INC = 0x00;
DemoIncOff(next) ==
  /\ ADR_INC' = 0
  /\ pc' = next
  /\ UNCHANGED <<req, caller, probe, uartvars, ADR_H, ADR_M, ADR_L, DATA3, DATA2, DATA1, DATA0, RAMMODE, EA,
                 vpmem, locals, irqvars, isrvars, history>>

demo_write_dgus_vp_set_addr == pc = "dw_adr" /\ DemoSetAddr("dw_inc")

demo_write_dgus_vp_inc_off == pc = "dw_inc" /\ DemoIncOff("dw_load")

\* number of buffer bytes the demo engine transfers: up to 4 from an even
\* address (DATA3, DATA2, DATA1, DATA0), up to 2 from an odd one (DATA1, DATA0)
DemoCount(odd, l) ==
  IF odd = 0 THEN (IF l > 3 THEN 4 ELSE l) ELSE (IF l > 1 THEN 2 ELSE l)
\* variant: an odd address is transferred through the high lanes as well
DemoLane_High(odd, j) == 3 - j
\* data lane of the j-th transferred byte (j = 0, 1, ...)
DemoLane(odd, j) == IF odd = 0 THEN 3 - j ELSE 1 - j
\* mask |= 0x08 / 0x04 / 0x02 / 0x01 for each lane loaded
DemoMask(odd, n) ==
  IF odd = 0
  THEN (CASE n = 0 -> 0 [] n = 1 -> 8 [] n = 2 -> 12 [] n = 3 -> 14 [] OTHER -> 15)
  ELSE (CASE n = 0 -> 0 [] n = 1 -> 2 [] OTHER -> 3)

\* if(!is_odd) { if(len > 0) { DATA3 = *buf++; mask |= 0x08; } ... }
\* else        { if(len > 0) { DATA1 = *buf++; mask |= 0x02; } ... }
\* then  if(mask != 0)
demo_write_dgus_vp_load ==
  /\ pc = "dw_load"
  /\ LET n == DemoCount(is_odd, len)
         Loaded(lane, old) ==
           IF \E j \in 0 .. (n - 1) : DemoLane(is_odd, j) = lane
           THEN buf[bi + (CHOOSE j \in 0 .. (n - 1) : DemoLane(is_odd, j) = lane)]
           ELSE old
     IN /\ DATA3' = Loaded(3, DATA3) /\ DATA2' = Loaded(2, DATA2)
        /\ DATA1' = Loaded(1, DATA1) /\ DATA0' = Loaded(0, DATA0)
        /\ bufAcc' = bufAcc \o [j \in 1 .. n |-> bi + j - 1]
        /\ bi' = bi + n
        /\ mask' = DemoMask(is_odd, n)
        /\ pc' = IF DemoMask(is_odd, n) # 0 THEN "dw_mode" ELSE "idle"
  /\ UNCHANGED <<req, caller, probe, uartvars, ADR_H, ADR_M, ADR_L, ADR_INC, RAMMODE, EA, vpmem,
                 addr, len, buf, OS_addr, is_odd, irqvars, isrvars,
                 len0, buf0, mem0, EA0, txlog, eaOps, lastWrite>>

\* RAMMODE = 0x80 | mask;
demo_write_dgus_vp_mode ==
  /\ pc = "dw_mode"
  /\ RAMMODE' = BitOr(128, mask)
  /\ pc' = "dw_start"
  /\ UNCHANGED <<req, caller, probe, uartvars, ADR_H, ADR_M, ADR_L, ADR_INC, DATA3, DATA2, DATA1, DATA0, EA,
                 vpmem, locals, irqvars, isrvars, history>>

demo_write_dgus_vp_start == pc = "dw_start" /\ StartTransaction("dw_wait")

\* while(APP_EN);
demo_write_dgus_vp_wait ==
  /\ pc = "dw_wait"
  /\ PollDone
  /\ pc' = "dw_rel"
  /\ UNCHANGED <<req, caller, probe, uartvars, hwregs, EA, vpmem, locals, irqvars, isrvars, history>>

\* RAMMODE = 0x00;  and return to the caller
DemoRelease ==
  /\ RAMMODE' = 0
  /\ pc' = "idle"
  /\ UNCHANGED <<req, caller, probe, uartvars, ADR_H, ADR_M, ADR_L, ADR_INC, DATA3, DATA2, DATA1, DATA0, EA,
                 vpmem, locals, irqvars, isrvars, history>>

demo_write_dgus_vp_release == pc = "dw_rel" /\ DemoRelease

demo_read_dgus_vp_set_addr == pc = "dr_adr" /\ DemoSetAddr("dr_inc")

demo_read_dgus_vp_inc_off == pc = "dr_inc" /\ DemoIncOff("dr_mode")

demo_read_dgus_vp_mode == pc = "dr_mode" /\ ReadMode("dr_start")

demo_read_dgus_vp_start == pc = "dr_start" /\ StartTransaction("dr_wait")

\* while(APP_EN);
demo_read_dgus_vp_wait ==
  /\ pc = "dr_wait"
  /\ PollDone
  /\ pc' = "dr_store"
  /\ UNCHANGED <<req, caller, probe, uartvars, hwregs, EA, vpmem, locals, irqvars, isrvars, history>>

\* if(!is_odd) { if(len > 0) *buf++ = DATA3; ... if(len > 3) *buf++ = DATA0; }
\* else        { if(len > 0) *buf++ = DATA1; if(len > 1) *buf++ = DATA0; }
demo_read_dgus_vp_store ==
  /\ pc = "dr_store"
  /\ LET n == DemoCount(is_odd, len)
         Reg(lane) == CASE lane = 3 -> DATA3 [] lane = 2 -> DATA2
                        [] lane = 1 -> DATA1 [] OTHER -> DATA0
     IN /\ buf' = [i \in BufIdx |->
                     IF i >= bi /\ i < bi + n THEN Reg(DemoLane(is_odd, i - bi))
                     ELSE buf[i]]
        /\ bufAcc' = bufAcc \o [j \in 1 .. n |-> bi + j - 1]
        /\ bi' = bi + n
  /\ pc' = "dr_rel"
  /\ UNCHANGED <<req, caller, probe, uartvars, hwregs, EA, vpmem, addr, len, OS_addr, is_odd, mask,
                 irqvars, isrvars, len0, buf0, mem0, EA0, txlog, eaOps, lastWrite>>

demo_read_dgus_vp_release == pc = "dr_rel" /\ DemoRelease

demo_dgus_vp ==
  \/ Call_demo_write_dgus_vp \/ Call_demo_read_dgus_vp
  \/ demo_write_dgus_vp_set_addr \/ demo_write_dgus_vp_inc_off
  \/ demo_write_dgus_vp_load \/ demo_write_dgus_vp_mode
  \/ demo_write_dgus_vp_start \/ demo_write_dgus_vp_wait
  \/ demo_write_dgus_vp_release
  \/ demo_read_dgus_vp_set_addr \/ demo_read_dgus_vp_inc_off
  \/ demo_read_dgus_vp_mode \/ demo_read_dgus_vp_start
  \/ demo_read_dgus_vp_wait \/ demo_read_dgus_vp_store
  \/ demo_read_dgus_vp_release

\* both firmware builds, each behaviour linked with one of them
NextBuilds == Next \/ demo_dgus_vp

SpecBuilds == InitBuilds /\ [][NextBuilds]_vars

(* ------------- calls entered with leftover register contents --------- *)
\* values the handshake registers may hold when a call is entered, in the
\* order of hwregs: the reset values, and values left by earlier use with no
\* transaction pending (APP_EN = 0)
LeftoverRegs ==
  {ResetRegs,
   <<255, 255, 255, 0, 170, 187, 204, 221, 15>>,
   <<0, 1, 7, 4, 1, 2, 3, 4, 175>>}

RegsBecome(r) ==
  /\ ADR_H' = r[1] /\ ADR_M' = r[2] /\ ADR_L' = r[3] /\ ADR_INC' = r[4]
  /\ DATA3' = r[5] /\ DATA2' = r[6] /\ DATA1' = r[7] /\ DATA0' = r[8]
  /\ RAMMODE' = r[9]

\* what the hardware does with a logged transaction: slot, direction, lanes,
\* and for a write the bytes on the enabled lanes
TxView(log) ==
  [i \in 1 .. Len(log) |->
     [slot |-> log[i].slot, rw |-> log[i].rw, mask |-> log[i].mask,
      data |-> [l \in 1 .. 4 |->
                 IF log[i].rw = 0 /\ Bit(log[i].mask, 4 - l) = 1
                 THEN log[i].data[l] ELSE 0]]]

\* direction of the call that has returned: 0 write, 1 read
RwNow == IF lastWrite.seq = 1 THEN 0 ELSE 1

\* the call that has returned is executed again with the same arguments: its
\* outcome is kept in ref, the registers hold the values left by the first
\* execution or any of LeftoverRegs, and VP memory is either put back to its
\* contents before the first execution or left as the first execution made it
Rerun ==
  /\ pc = "idle" /\ Len(eaOps) = 2 /\ ref.n = 0
  /\ req.build = "KEIL"
  /\ \E r \in LeftoverRegs \cup {hwregs} :
       /\ RegsBecome(r)
       /\ \E m \in {mem0, vpmem} :
            /\ vpmem' = m
            /\ mem0' = m
       /\ ref' = [n |-> 1, rw |-> RwNow, src |-> buf0, mem0 |-> mem0,
                  tx |-> TxView(txlog), mem |-> vpmem, out |-> buf, left |-> r]
  /\ pc' = IF RwNow = 0 THEN "w_ea0" ELSE "r_ea0"
  /\ addr' = addr /\ len' = len0 /\ buf' = buf0 /\ bi' = 0
  /\ OS_addr' = SlotOf(addr) /\ is_odd' = OddOf(addr) /\ mask' = 0
  /\ len0' = len0 /\ buf0' = buf0 /\ EA0' = EA
  /\ txlog' = <<>> /\ bufAcc' = <<>> /\ eaOps' = <<>>
  /\ lastWrite' = NoWrite
  /\ UNCHANGED <<req, caller, uartvars, snap, stuck, EA, irqvars, isrvars>>

InitLeftover ==
  /\ \E r \in LeftoverRegs : RegsAre(r)
  /\ InitRest({"KEIL"})

NextLeftover ==
  \/ T0_Init
  \/ Call_write_dgus_vp \/ Call_read_dgus_vp
  \/ write_dgus_vp \/ read_dgus_vp
  \/ HW_Transaction
  \/ Rerun

SpecLeftover == InitLeftover /\ [][NextLeftover]_vars

(* ------------- the same request given to both builds ------------------ *)
\* the call of src/KEIL/sys.c has returned; its outcome is kept in ref, VP
\* memory is put back to its contents before that call, and the function of
\* the same name of src/demo/T5L_KEIL/sys.c is called with the same arguments
Call_demo_same_request ==
  /\ pc = "idle" /\ Len(eaOps) = 2 /\ ref.n = 0
  /\ ref' = [n |-> 2, rw |-> RwNow, src |-> buf0, mem0 |-> mem0,
             tx |-> TxView(txlog), mem |-> vpmem, out |-> buf, left |-> hwregs]
  /\ vpmem' = mem0
  /\ pc' = IF RwNow = 0 THEN "dw_adr" ELSE "dr_adr"
  /\ addr' = addr /\ len' = len0 /\ buf' = buf0 /\ bi' = 0
  /\ OS_addr' = SlotOf(addr) /\ is_odd' = OddOf(addr) /\ mask' = 0
  /\ txlog' = <<>> /\ bufAcc' = <<>> /\ eaOps' = <<>>
  /\ lastWrite' = NoWrite
  /\ UNCHANGED <<len0, buf0, mem0, EA0, req, caller, uartvars, snap, stuck, hwregs, EA,
                 irqvars, isrvars>>

NextEquiv ==
  \/ T0_Init
  \/ Call_write_dgus_vp \/ Call_read_dgus_vp
  \/ write_dgus_vp \/ read_dgus_vp
  \/ HW_Transaction
  \/ Call_demo_same_request
  \/ demo_write_dgus_vp_set_addr \/ demo_write_dgus_vp_inc_off
  \/ demo_write_dgus_vp_load \/ demo_write_dgus_vp_mode
  \/ demo_write_dgus_vp_start \/ demo_write_dgus_vp_wait
  \/ demo_write_dgus_vp_release
  \/ demo_read_dgus_vp_set_addr \/ demo_read_dgus_vp_inc_off
  \/ demo_read_dgus_vp_mode \/ demo_read_dgus_vp_start
  \/ demo_read_dgus_vp_wait \/ demo_read_dgus_vp_store
  \/ demo_read_dgus_vp_release

SpecEquiv == Init /\ [][NextEquiv]_vars

(* ------------- the demo build with and without preemption ------------- *)
\* the demo build's call was executed with interrupts disabled (EA0 = 0) and
\* has issued its transaction; its outcome is kept in ref, VP memory is put
\* back, and the same call is executed again now that interrupts are enabled;
\* ref.left keeps the handlers' counters at that moment
Call_demo_again ==
  /\ pc = "idle" /\ ref.n = 0 /\ req.build = "demo"
  /\ EA0 = 0 /\ EA = 1 /\ Len(txlog) = 1
  /\ ref' = [n |-> 3, rw |-> txlog[1].rw, src |-> buf0, mem0 |-> mem0,
             tx |-> TxView(txlog), mem |-> vpmem, out |-> buf,
             left |-> <<Wait_Count, SysTick_RTC, Rx_Head>>]
  /\ vpmem' = mem0
  /\ pc' = IF txlog[1].rw = 0 THEN "dw_adr" ELSE "dr_adr"
  /\ addr' = addr /\ len' = len0 /\ buf' = buf0 /\ bi' = 0
  /\ OS_addr' = SlotOf(addr) /\ is_odd' = OddOf(addr) /\ mask' = 0
  /\ EA0' = 1
  /\ txlog' = <<>> /\ bufAcc' = <<>> /\ eaOps' = <<>>
  /\ lastWrite' = NoWrite
  /\ UNCHANGED <<len0, buf0, mem0, req, caller, uartvars, snap, stuck, hwregs, EA,
                 irqvars, isrvars>>

\* the demo build has handlers for timer 0 and timer 1 (sys.c) and uses the
\* UART5 driver, whose receive handler is that of src/KEIL/uart.c
InitPreempt == InitState({"demo"})

NextPreempt ==
  \/ T0_Init
  \/ demo_dgus_vp
  \/ Call_demo_again
  \/ HW_Transaction
  \/ RaiseIrq
  \/ T0_ISR_PC \/ T1_ISR_PC \/ UART5_RX_ISR_PC

SpecPreempt == InitPreempt /\ [][NextPreempt]_vars

(* ------------- hardware that stops acknowledging ---------------------- *)
\* from some started transaction on, the bus interface no longer completes
\* transactions: APP_EN stays 1
HW_Stuck ==
  /\ APP_EN_Of(RAMMODE) = 1 /\ ~stuck
  /\ stuck' = TRUE
  /\ UNCHANGED <<req, caller, uartvars, snap, ref, hwregs, EA, vpmem, pc, locals, irqvars,
                 isrvars, history>>

\* the bus interface completes the transaction while it is responsive
HW_Responsive == ~stuck /\ HW_Transaction

NextStuck ==
  \/ T0_Init
  \/ Call_write_dgus_vp \/ Call_read_dgus_vp
  \/ write_dgus_vp \/ read_dgus_vp
  \/ HW_Responsive \/ HW_Stuck
  \/ RaiseIrq
  \/ T0_ISR_PC \/ T1_ISR_PC \/ T2_ISR_PC \/ UART5_RX_ISR_PC

SpecStuck == Init /\ [][NextStuck]_vars

(* ------------- main loop and peripheral wrappers (src/KEIL) ------------ *)
\* bound: iterations of the P1 block of the main loop
MaxP1 == 2

\* a two-byte object passed by address (C51 stores the high byte first); the
\* bytes behind it belong to other objects
Bytes2(b0, b1) == [i \in BufIdx |-> IF i = 0 THEN b0 ELSE IF i = 1 THEN b1 ELSE DstBuf[i]]
\* a one-byte object passed by address
Bytes1(b0) == [i \in BufIdx |-> IF i = 0 THEN b0 ELSE DstBuf[i]]

\* the caller's statement calls the engine and continues at next on return
CallEngine(a, l, b, first, next) ==
  /\ cpc' = next
  /\ Enter(a, l, b, first)
  /\ lastWrite' = NoWrite

\* a statement of the main context outside the engine
MainStep(from, to) ==
  /\ pc = "idle" /\ cpc = from
  /\ cpc' = to
  /\ UNCHANGED <<req, hwregs, EA, vpmem, pc, locals, irqvars, history, ref, stuck, uartvars>>

\* variant: the offset of December is one less
table_week_Off == <<0, 3, 3, 6, 1, 4, 6, 2, 5, 0, 3, 4>>

\* const u8 code table_week[12]
table_week == <<0, 3, 3, 6, 1, 4, 6, 2, 5, 0, 3, 5>>

\* u8 RTC_Get_Week(u8 year, u8 month, u8 day)
RTC_Get_Week(year, month, day) ==
  LET year_real == (year + 2000) % 65536
      yearH == U8(year_real \div 100)
      yearL0 == U8(year_real % 100)
      yearL == IF yearH > 19 THEN U8(yearL0 + 100) ELSE yearL0
      t1 == (yearL + yearL \div 4) % 7
      t2 == t1 + day + table_week[month]
      t3 == IF yearL % 4 = 0 /\ month < 3 THEN (t2 + 65535) % 65536 ELSE t2
      t4 == t3 % 7
  IN IF t4 = 0 THEN 6 ELSE t4 - 1

\* the (hour, min, sec) fields of the software clock
TimeOf(t) == <<t.hour, t.min, t.sec>>

\* Time_Update: MUX_SEL |= 0x01; if(Second_Updata_Flag == 1)
\*   real_time.week = RTC_Get_Week(real_time.year, real_time.month, real_time.day);
Time_Update_week ==
  /\ Second_Updata_Flag = 1
  /\ MainStep("main", "tu_hour")
  /\ real_time' = [real_time EXCEPT !.week = RTC_Get_Week(real_time.year, real_time.month,
                                                          real_time.day)]
  /\ UNCHANGED <<Wait_Count, SysTick, SysTick_RTC, Second_Updata_Flag, P2_0, Rx_Head,
                 Rx_Buffer, arg, ret, hour_val, min_val, sec_val, tmp, last_p1_update,
                 p1_cnt, P1, snap>>

\* hour_val = real_time.hour;
Time_Update_hour ==
  /\ MainStep("tu_hour", "tu_min")
  /\ hour_val' = real_time.hour
  /\ snap' = [snap EXCEPT !.time0 = TimeOf(real_time), !.time1 = TimeOf(real_time)]
  /\ UNCHANGED <<isrvars, arg, ret, min_val, sec_val, tmp, last_p1_update, p1_cnt, P1>>

\* min_val = real_time.min;
Time_Update_min ==
  /\ MainStep("tu_min", "tu_sec")
  /\ min_val' = real_time.min
  /\ UNCHANGED <<isrvars, arg, ret, hour_val, sec_val, tmp, last_p1_update, p1_cnt, P1, snap>>

\* sec_val = real_time.sec;
Time_Update_sec ==
  /\ MainStep("tu_sec", "tu_w1")
  /\ sec_val' = real_time.sec
  /\ snap' = [snap EXCEPT !.time1 = TimeOf(real_time)]
  /\ UNCHANGED <<isrvars, arg, ret, hour_val, min_val, tmp, last_p1_update, p1_cnt, P1>>

\* write_dgus_vp(0x2010, &hour_val, 2);
Time_Update_write_hour ==
  /\ cpc = "tu_w1"
  /\ CallEngine(TimeVPs[1], 2, Bytes2(hour_val \div 256, hour_val % 256), "w_ea0", "tu_w2")
  /\ UNCHANGED <<arg, ret, hour_val, min_val, sec_val, tmp, last_p1_update, p1_cnt, P1>>

\* write_dgus_vp(0x2020, &min_val, 2);
Time_Update_write_min ==
  /\ cpc = "tu_w2"
  /\ CallEngine(TimeVPs[2], 2, Bytes2(min_val \div 256, min_val % 256), "w_ea0", "tu_w3")
  /\ UNCHANGED <<arg, ret, hour_val, min_val, sec_val, tmp, last_p1_update, p1_cnt, P1>>

\* write_dgus_vp(0x2030, &sec_val, 2);
Time_Update_write_sec ==
  /\ cpc = "tu_w3"
  /\ CallEngine(TimeVPs[3], 2, Bytes2(sec_val \div 256, sec_val % 256), "w_ea0", "tu_clr")
  /\ UNCHANGED <<arg, ret, hour_val, min_val, sec_val, tmp, last_p1_update, p1_cnt, P1>>

\* Second_Updata_Flag = 0;
Time_Update_clear ==
  /\ MainStep("tu_clr", "main")
  /\ Second_Updata_Flag' = 0
  /\ UNCHANGED <<Wait_Count, SysTick, SysTick_RTC, real_time, P2_0, Rx_Head, Rx_Buffer,
                 arg, ret, hour_val, min_val, sec_val, tmp, last_p1_update, p1_cnt, P1, snap>>

Time_Update ==
  \/ Time_Update_week \/ Time_Update_hour \/ Time_Update_min \/ Time_Update_sec
  \/ Time_Update_write_hour \/ Time_Update_write_min \/ Time_Update_write_sec
  \/ Time_Update_clear

\* The 8-bit CPU reads the 16-bit Wait_Count one byte at a time; the first
\* byte read is the high or the low one, as the compiler ordered the two moves.
ReadFirstByte ==
  \E f \in {"hi", "lo"} :
    /\ tmp' = [n |-> 1, first |-> f,
               hi |-> IF f = "hi" THEN Wait_Count \div 256 ELSE 0,
               lo |-> IF f = "lo" THEN Wait_Count % 256 ELSE 0]
    /\ snap' = [snap EXCEPT !.tick0 = Wait_Count, !.tick1 = Wait_Count]

\* the 16-bit value assembled once the other byte is read
SecondByte ==
  IF tmp.first = "hi" THEN tmp.hi * 256 + (Wait_Count % 256)
  ELSE (Wait_Count \div 256) * 256 + tmp.lo

ReadSecondByte ==
  /\ tmp' = [n |-> 2, first |-> tmp.first, hi |-> SecondByte \div 256, lo |-> SecondByte % 256]
  /\ snap' = [snap EXCEPT !.tick1 = Wait_Count]

\* main: if((u16)(Wait_Count - last_p1_update) >= 100)     first byte of Wait_Count
main_p1_check_read ==
  /\ p1_cnt < MaxP1
  /\ MainStep("main", "p1_chk")
  /\ ReadFirstByte
  /\ UNCHANGED <<isrvars, arg, ret, hour_val, min_val, sec_val, last_p1_update, p1_cnt, P1>>

\* second byte, then the comparison
main_p1_check ==
  /\ MainStep("p1_chk",
              IF (SecondByte + 65536 - last_p1_update) % 65536 >= 100 THEN "p1_cap" ELSE "main")
  /\ ReadSecondByte
  /\ UNCHANGED <<isrvars, arg, ret, hour_val, min_val, sec_val, last_p1_update, p1_cnt, P1>>

\* last_p1_update = Wait_Count;     first byte of Wait_Count
main_p1_capture_read ==
  /\ MainStep("p1_cap", "p1_cap2")
  /\ ReadFirstByte
  /\ UNCHANGED <<isrvars, arg, ret, hour_val, min_val, sec_val, last_p1_update, p1_cnt, P1>>

\* second byte, and the store to last_p1_update
main_p1_capture ==
  /\ MainStep("p1_cap2", "p1_out")
  /\ ReadSecondByte
  /\ last_p1_update' = SecondByte
  /\ UNCHANGED <<isrvars, arg, ret, hour_val, min_val, sec_val, p1_cnt, P1>>

\* P1 = p1_cnt; p1_cnt++; LED_Set_Brightness_Now(p1_cnt/3);
\* LED_Set_Brightness_Now: write_dgus_vp(VP_LED_CONFIG, &brightness, 1);
LED_Set_Brightness_Now ==
  /\ cpc = "p1_out"
  /\ P1' = p1_cnt
  /\ p1_cnt' = U8(p1_cnt + 1)
  /\ arg' = [fn |-> "LED_Set_Brightness_Now", a |-> U8(p1_cnt + 1) \div 3, ptr |-> 0]
  /\ CallEngine(VP_LED_CONFIG, 1, Bytes1(U8(p1_cnt + 1) \div 3), "w_ea0", "ret0")
  /\ UNCHANGED <<ret, hour_val, min_val, sec_val, tmp, last_p1_update>>

\* void LED_Test_Set_50_Percent(void):
\*   u8 brightness = 0x32; LED_Set_Brightness_Now(brightness);
\* LED_Set_Brightness_Now: write_dgus_vp(VP_LED_CONFIG, &brightness, 1);
LED_Test_Set_50_Percent ==
  /\ cpc = "main"
  /\ arg' = [fn |-> "LED_Set_Brightness_Now", a |-> 50, ptr |-> 0]
  /\ CallEngine(VP_LED_CONFIG, 1, Bytes1(50), "w_ea0", "ret0")
  /\ UNCHANGED <<ret, hour_val, min_val, sec_val, tmp, last_p1_update, p1_cnt, P1>>

\* return 0;   (LED_Set_Brightness_Now, PWM0_Set_Duty, ADC_Read_Raw after the read)
Wrapper_return ==
  /\ MainStep("ret0", "main")
  /\ ret' = 0
  /\ UNCHANGED <<isrvars, arg, hour_val, min_val, sec_val, tmp, last_p1_update, p1_cnt, P1,
                 snap>>

\* duty values and ADC arguments the callers pass
Duties == {4660, 255}
Channels == {1, 7, 8}
Pointers == {0, 1}

\* variant: the low byte of the duty is stored first
PWM0_Set_Duty_LowFirst ==
  \E duty_value \in Duties :
    /\ cpc = "main"
    /\ arg' = [fn |-> "PWM0_Set_Duty", a |-> duty_value, ptr |-> 0]
    /\ CallEngine(VP_PWM0_OUT, 2, Bytes2(U8(duty_value), U8(duty_value \div 256)),
                  "w_ea0", "ret0")
    /\ UNCHANGED <<ret, hour_val, min_val, sec_val, tmp, last_p1_update, p1_cnt, P1>>

\* u8 PWM0_Set_Duty(u16 duty_value):
\*   datas[0] = (u8)(duty_value >> 8); datas[1] = (u8)(duty_value);
\*   write_dgus_vp(VP_PWM0_OUT, datas, 2);
PWM0_Set_Duty ==
  \E duty_value \in Duties :
    /\ cpc = "main"
    /\ arg' = [fn |-> "PWM0_Set_Duty", a |-> duty_value, ptr |-> 0]
    /\ CallEngine(VP_PWM0_OUT, 2, Bytes2(U8(duty_value \div 256), U8(duty_value)),
                  "w_ea0", "ret0")
    /\ UNCHANGED <<ret, hour_val, min_val, sec_val, tmp, last_p1_update, p1_cnt, P1>>

\* a caller invokes ADC_Read_Raw(channel, raw_value_ptr)
Call_ADC_Read_Raw ==
  \E channel \in Channels, raw_value_ptr \in Pointers :
    /\ MainStep("main", "adc_chk")
    /\ arg' = [fn |-> "ADC_Read_Raw", a |-> channel, ptr |-> raw_value_ptr]
    /\ UNCHANGED <<isrvars, ret, hour_val, min_val, sec_val, tmp, last_p1_update, p1_cnt,
                   P1, snap>>

\* variant: channel 8 passes the validation
ADC_Invalid_Off(channel, raw_value_ptr) == channel > 8 \/ raw_value_ptr = 0
\* if (channel > 7 || raw_value_ptr == NULL)
ADC_Invalid(channel, raw_value_ptr) == channel > 7 \/ raw_value_ptr = 0

\* ... return 1;
ADC_Read_Raw_reject ==
  /\ ADC_Invalid(arg.a, arg.ptr)
  /\ MainStep("adc_chk", "main")
  /\ ret' = 1
  /\ arg' = NoArg
  /\ UNCHANGED <<isrvars, hour_val, min_val, sec_val, tmp, last_p1_update, p1_cnt, P1,
                 snap>>

\* address = VP_ADC_INSTANT + (u32)channel * 2; read_dgus_vp(address, raw_value_ptr, 2);
ADC_Read_Raw_read ==
  /\ ~ADC_Invalid(arg.a, arg.ptr)
  /\ cpc = "adc_chk"
  /\ CallEngine(VP_ADC_INSTANT + arg.a * 2, 2, DstBuf, "r_ea0", "ret0")
  /\ UNCHANGED <<arg, ret, hour_val, min_val, sec_val, tmp, last_p1_update, p1_cnt, P1>>

ADC_Read_Raw == Call_ADC_Read_Raw \/ ADC_Read_Raw_reject \/ ADC_Read_Raw_read

\* the main loop (main.c) at the top of an iteration: interrupts are enabled,
\* the tick counter and the clock have been running
InitCallers(reqs, ticks, rtcticks, clocks, flags) ==
  /\ ADR_H = 0 /\ ADR_M = 0 /\ ADR_L = 0 /\ ADR_INC = 0
  /\ DATA3 = 0 /\ DATA2 = 0 /\ DATA1 = 0 /\ DATA0 = 0 /\ RAMMODE = 0
  /\ EA = 1
  /\ vpmem = InitMem
  /\ req \in reqs
  /\ pc = "idle"
  /\ addr = 0 /\ len = 0 /\ buf = DstBuf /\ bi = 0
  /\ OS_addr = 0 /\ is_odd = 0 /\ mask = 0
  /\ pending = {} /\ nIrq = 0 /\ SBUF3_RX = 0
  /\ Wait_Count \in ticks /\ SysTick = 0 /\ SysTick_RTC \in rtcticks
  /\ real_time \in clocks
  /\ Second_Updata_Flag \in flags
  /\ P2_0 = 1 /\ Rx_Head = 0 /\ Rx_Buffer = [i \in 0 .. 31 |-> 0]
  /\ len0 = 0 /\ buf0 = DstBuf /\ mem0 = InitMem /\ EA0 = 1
  /\ txlog = <<>> /\ bufAcc = <<>> /\ eaOps = <<>>
  /\ lastWrite = NoWrite
  /\ cpc = "main" /\ arg = NoArg /\ ret = 0
  /\ hour_val = 0 /\ min_val = 0 /\ sec_val = 0 /\ tmp = NoRead
  /\ last_p1_update = 0 /\ p1_cnt = 0 /\ P1 = 0
  /\ snap = NoSnap /\ ref = NoRef /\ stuck = FALSE
  /\ RS485_TX_EN = 0 /\ SBUF3_TX = 0 /\ SCON3T_TI = 0 /\ last_keep_alive = 0
  /\ ucall = NoSend
  /\ Rx_Tail = 0 /\ rxc = 0 /\ rxout = <<>> /\ rxover = FALSE

\* the clock at the last second of a minute, of an hour and of a day
LastSeconds ==
  {[year |-> 19, month |-> 5, day |-> 1, week |-> 0, hour |-> h, min |-> m, sec |-> 59] :
     h \in {12, 23}, m \in {0, 59}}
\* the clock as RTC_Init leaves it
BootClock ==
  [year |-> 19, month |-> 5, day |-> 1, week |-> 0, hour |-> 12, min |-> 0, sec |-> 0]
\* the VP variable a caller reads back: the PWM0 duty word
DutyWord == [addr |-> VP_PWM0_OUT, len |-> 2, build |-> "KEIL"]

\* The calls of the main loop and of the wrappers transfer fewer than four
\* bytes at an even address: of the engine they execute the statements below
\* (the head block and the loop body are not entered).
write_dgus_vp_short ==
  \/ write_dgus_vp_disable \/ write_dgus_vp_set_addr \/ write_dgus_vp_auto_inc
  \/ write_dgus_vp_tail_load \/ write_dgus_vp_tail_mode
  \/ write_dgus_vp_tail_start \/ write_dgus_vp_tail_wait
  \/ write_dgus_vp_release \/ write_dgus_vp_restore

read_dgus_vp_short ==
  \/ read_dgus_vp_disable \/ read_dgus_vp_set_addr \/ read_dgus_vp_auto_inc
  \/ read_dgus_vp_tail_mode \/ read_dgus_vp_tail_start
  \/ read_dgus_vp_tail_wait \/ read_dgus_vp_tail_store
  \/ read_dgus_vp_release \/ read_dgus_vp_restore

InitMain == InitCallers({DutyWord}, {99, 255}, {0, 999}, LastSeconds, {0, 1})

main ==
  \/ Time_Update
  \/ main_p1_check_read \/ main_p1_check \/ main_p1_capture_read \/ main_p1_capture
  \/ LED_Set_Brightness_Now \/ Wrapper_return

NextMain ==
  \/ main
  \/ write_dgus_vp_short
  \/ HW_Transaction
  \/ RaiseIrq
  \/ T0_ISR_PC \/ T1_ISR_PC \/ T2_ISR_PC \/ UART5_RX_ISR_PC

SpecMain == InitMain /\ [][NextMain]_vars

\* callers of the peripheral wrappers, and a caller that reads a VP variable back
InitWrap == InitCallers({DutyWord}, {0}, {0}, {BootClock}, {0})

NextWrap ==
  \/ PWM0_Set_Duty \/ ADC_Read_Raw \/ LED_Test_Set_50_Percent \/ Wrapper_return
  \/ Call_read_dgus_vp
  \/ write_dgus_vp_short \/ read_dgus_vp_short
  \/ HW_Transaction
  \/ RaiseIrq
  \/ T0_ISR_PC \/ T1_ISR_PC \/ T2_ISR_PC \/ UART5_RX_ISR_PC

SpecWrap == InitWrap /\ [][NextWrap]_vars

(* ------------- UART5 transmission (uart.c, main.c keep-alive) --------- *)
\* a statement of the main context that uses the UART5 transmitter
UartStep(from, to) ==
  /\ pc = "idle" /\ cpc = from
  /\ cpc' = to
  /\ UNCHANGED <<req, hwregs, EA, vpmem, pc, locals, irqvars, isrvars, history, probe,
                 arg, ret, hour_val, min_val, sec_val, tmp, last_p1_update, p1_cnt, P1,
                 last_keep_alive, rxvars>>

\* u16 adc0_raw_val, as ADC_Read_Raw left it through raw_value_ptr
adc0_raw_val == buf[0] * 256 + buf[1]
\* adc0_mv_val = ((u32)adc0_raw_val * 3300) / 65535;
adc0_mv_val == (adc0_raw_val * 3300) \div 65535

\* the statements of the keep-alive block of main (main.c:220-265), in
\* order: a UART5_SendStr call, a direct UART5_Sendbyte call, or the
\* ADC_Read_Raw(1, &adc0_raw_val) call, whose arguments pass its validation;
\* from 30 the echo of a received digit (main.c:285-287), from 40 the reply to
\* any other received byte (main.c:292)
KeepAliveBlock(k) ==
  LET str(s) == [op |-> "str", str |-> s, dat |-> 0]
      byte(b) == [op |-> "byte", str |-> <<>>, dat |-> U8(b)]
  IN CASE k = 1 -> str(<<84, 105, 109, 101, 58, 32>>)
       [] k = 2 -> byte((real_time.hour \div 10) + 48)
       [] k = 3 -> byte((real_time.hour % 10) + 48)
       [] k = 4 -> byte(58)
       [] k = 5 -> byte((real_time.min \div 10) + 48)
       [] k = 6 -> byte((real_time.min % 10) + 48)
       [] k = 7 -> byte(58)
       [] k = 8 -> byte((real_time.sec \div 10) + 48)
       [] k = 9 -> byte((real_time.sec % 10) + 48)
       [] k = 10 -> str(<<32, 124, 32>>)
       [] k = 11 -> [op |-> "adc", str |-> <<>>, dat |-> 0]
       [] k = 12 -> str(<<32, 124, 32, 65, 68, 67, 49, 32, 82, 97, 119, 58, 32>>)
       [] k = 13 -> byte((adc0_raw_val \div 10000) + 48)
       [] k = 14 -> byte(((adc0_raw_val % 10000) \div 1000) + 48)
       [] k = 15 -> byte(((adc0_raw_val % 1000) \div 100) + 48)
       [] k = 16 -> byte(((adc0_raw_val % 100) \div 10) + 48)
       [] k = 17 -> byte((adc0_raw_val % 10) + 48)
       [] k = 18 -> str(<<32, 40>>)
       [] k = 19 -> byte(((adc0_mv_val \div 1000) % 10) + 48)
       [] k = 20 -> byte(46)
       [] k = 21 -> byte(((adc0_mv_val \div 100) % 10) + 48)
       [] k = 22 -> byte(((adc0_mv_val \div 10) % 10) + 48)
       [] k = 23 -> byte(86)
       [] k = 24 -> byte(41)
       [] k = 25 -> str(<<13, 10>>)
       [] k = 30 -> str(<<119, 114, 105, 116, 116, 101, 110, 32, 110, 117, 109, 98, 101,
                          114, 58, 32>>)
       [] k = 31 -> byte(rxc)
       [] k = 32 -> str(<<13, 10>>)
       [] k = 40 -> str(<<111, 117, 116, 32, 111, 102, 32, 108, 105, 109, 105, 116, 13, 10>>)
       [] OTHER -> [op |-> "end", str |-> <<>>, dat |-> 0]

\* main: if((u16)(Wait_Count - last_keep_alive) >= 5000) { last_keep_alive = Wait_Count;
main_keep_alive_check ==
  /\ pc = "idle" /\ cpc = "main"
  /\ (Wait_Count + 65536 - last_keep_alive) % 65536 >= 5000
  /\ last_keep_alive' = Wait_Count
  /\ cpc' = "ka"
  /\ ucall' = [NoSend EXCEPT !.blk = 1]
  /\ UNCHANGED <<req, hwregs, EA, vpmem, pc, locals, irqvars, isrvars, history, probe,
                 arg, ret, hour_val, min_val, sec_val, tmp, last_p1_update, p1_cnt, P1,
                 RS485_TX_EN, SBUF3_TX, SCON3T_TI, rxvars>>

\* the next statement of the block calls UART5_SendStr or UART5_Sendbyte,
\* or the block ends
keep_alive_send ==
  /\ KeepAliveBlock(ucall.blk).op # "adc"
  /\ LET o == KeepAliveBlock(ucall.blk)
     IN /\ UartStep("ka", CASE o.op = "str" -> "ss_en"
                            [] o.op = "byte" -> "sb_load"
                            [] OTHER -> "main")
        /\ ucall' = IF o.op = "end" THEN NoSend
                    ELSE [blk |-> ucall.blk, str |-> o.str, i |-> 1, dat |-> o.dat]
  /\ UNCHANGED <<RS485_TX_EN, SBUF3_TX, SCON3T_TI>>

\* ADC_Read_Raw(1, &adc0_raw_val): read_dgus_vp(VP_ADC_INSTANT + 1 * 2, .., 2)
keep_alive_adc ==
  /\ cpc = "ka"
  /\ KeepAliveBlock(ucall.blk).op = "adc"
  /\ arg' = [fn |-> "ADC_Read_Raw", a |-> 1, ptr |-> 1]
  /\ CallEngine(VP_ADC_INSTANT + 1 * 2, 2, DstBuf, "r_ea0", "ka_adc")
  /\ UNCHANGED <<ret, hour_val, min_val, sec_val, tmp, last_p1_update, p1_cnt, P1>>

\* ADC_Read_Raw returns 0:  if(ADC_Read_Raw(1, &adc0_raw_val) == 0)
keep_alive_adc_ok ==
  /\ UartStep("ka_adc", "ka")
  /\ ucall' = [ucall EXCEPT !.blk = @ + 1]
  /\ UNCHANGED <<RS485_TX_EN, SBUF3_TX, SCON3T_TI>>

\* UART5_SendStr: if((NULL == pstr)||(0 == strlen)) return;  RS485_TX_EN=1;
UART5_SendStr_enable ==
  /\ UartStep("ss_en", IF ucall.str = <<>> THEN "ka" ELSE "ss_loop")
  /\ RS485_TX_EN' = IF ucall.str = <<>> THEN RS485_TX_EN ELSE 1
  /\ ucall' = IF ucall.str = <<>> THEN [NoSend EXCEPT !.blk = ucall.blk + 1] ELSE ucall
  /\ UNCHANGED <<SBUF3_TX, SCON3T_TI>>

\* while(strlen--) { UART5_Sendbyte(*pstr); pstr++; }
UART5_SendStr_loop ==
  /\ UartStep("ss_loop", IF ucall.i <= Len(ucall.str) THEN "sb_load" ELSE "ss_dis")
  /\ ucall' = IF ucall.i <= Len(ucall.str)
              THEN [ucall EXCEPT !.dat = ucall.str[ucall.i], !.i = @ + 1]
              ELSE ucall
  /\ UNCHANGED <<RS485_TX_EN, SBUF3_TX, SCON3T_TI>>

\* RS485_TX_EN=0;  and return to the block
UART5_SendStr_disable ==
  /\ UartStep("ss_dis", "ka")
  /\ RS485_TX_EN' = 0
  /\ ucall' = [NoSend EXCEPT !.blk = ucall.blk + 1]
  /\ UNCHANGED <<SBUF3_TX, SCON3T_TI>>

UART5_SendStr == UART5_SendStr_enable \/ UART5_SendStr_loop \/ UART5_SendStr_disable

\* UART5_Sendbyte: SBUF3_TX = dat;
UART5_Sendbyte_load ==
  /\ UartStep("sb_load", "sb_wait")
  /\ SBUF3_TX' = ucall.dat
  /\ UNCHANGED <<RS485_TX_EN, SCON3T_TI, ucall>>

\* the transmitter has shifted the byte out and sets TI
UART_TxDone ==
  /\ cpc = "sb_wait" /\ SCON3T_TI = 0
  /\ SCON3T_TI' = 1
  /\ UNCHANGED <<hwregs, EA, vpmem, req, pc, locals, irqvars, isrvars, history, caller,
                 probe, RS485_TX_EN, SBUF3_TX, last_keep_alive, ucall, rxvars>>

\* while((SCON3T&0x01)==0);
UART5_Sendbyte_wait ==
  /\ SCON3T_TI = 1
  /\ UartStep("sb_wait", "sb_clr")
  /\ UNCHANGED <<RS485_TX_EN, SBUF3_TX, SCON3T_TI, ucall>>

\* SCON3T &=0xFE;  and return, to UART5_SendStr's loop or to the block
UART5_Sendbyte_clear ==
  /\ UartStep("sb_clr", IF ucall.str # <<>> THEN "ss_loop" ELSE "ka")
  /\ SCON3T_TI' = 0
  /\ ucall' = IF ucall.str # <<>> THEN ucall ELSE [NoSend EXCEPT !.blk = ucall.blk + 1]
  /\ UNCHANGED <<RS485_TX_EN, SBUF3_TX>>

UART5_Sendbyte == UART5_Sendbyte_load \/ UART5_Sendbyte_wait \/ UART5_Sendbyte_clear

\* the main loop when the keep-alive period has passed
InitUart == InitCallers({DutyWord}, {5000}, {0, 999}, LastSeconds, {0})

NextUart ==
  \/ main_keep_alive_check \/ keep_alive_send \/ keep_alive_adc \/ keep_alive_adc_ok
  \/ UART5_SendStr \/ UART5_Sendbyte \/ UART_TxDone
  \/ read_dgus_vp_short
  \/ HW_Transaction
  \/ RaiseIrq
  \/ T0_ISR_PC \/ T1_ISR_PC \/ T2_ISR_PC \/ UART5_RX_ISR_PC

SpecUart == InitUart /\ [][NextUart]_vars

(* ------------- UART5 receive ring (uart.c, main.c RX handling) -------- *)
\* number of bytes the line delivers: more than one lap of the 32-entry ring
MaxRx == 34
\* the k-th byte on the line: the digits '0'..'9' and ':' in turn
RxByte(k) == 48 + (k % 11)
\* consumptions completed by the main loop (Rx_Tail advanced)
TailIncs == Len(rxout) - (IF cpc = "rx_tail" THEN 1 ELSE 0)

\* the receiver has shifted a byte in: SBUF3_RX holds it and SCON3R.0 requests
\* the interrupt; rxover records that 32 bytes were waiting to be consumed
UART5_Receive ==
  /\ nIrq < MaxRx
  /\ "UART5" \notin pending
  /\ pending' = pending \cup {"UART5"}
  /\ nIrq' = nIrq + 1
  /\ SBUF3_RX' = RxByte(nIrq + 1)
  /\ rxover' = (rxover \/ (nIrq + 1 - TailIncs > 31))
  /\ UNCHANGED <<req, caller, probe, hwregs, EA, vpmem, pc, locals, isrvars, history,
                 RS485_TX_EN, SBUF3_TX, SCON3T_TI, last_keep_alive, ucall,
                 Rx_Tail, rxc, rxout>>

\* a statement of the RX handling of main
RxStep(from, to) ==
  /\ pc = "idle" /\ cpc = from
  /\ cpc' = to
  /\ UNCHANGED <<req, hwregs, EA, vpmem, pc, locals, irqvars, isrvars, history, probe,
                 arg, ret, hour_val, min_val, sec_val, tmp, last_p1_update, p1_cnt, P1,
                 RS485_TX_EN, SBUF3_TX, SCON3T_TI, last_keep_alive, rxover>>

\* if(Rx_Head != Rx_Tail)
main_rx_check ==
  /\ Rx_Head # Rx_Tail
  /\ RxStep("main", "rx_read")
  /\ UNCHANGED <<ucall, Rx_Tail, rxc, rxout>>

\* u8 c = Rx_Buffer[Rx_Tail];
main_rx_read ==
  /\ RxStep("rx_read", "rx_tail")
  /\ rxc' = Rx_Buffer[Rx_Tail]
  /\ rxout' = Append(rxout, Rx_Buffer[Rx_Tail])
  /\ UNCHANGED <<ucall, Rx_Tail>>

\* Rx_Tail = (Rx_Tail + 1) & 0x1F;   if(c >= '0' && c <= '9') ... else
\*   UART5_SendStr("out of limit\r\n", 14);
main_rx_tail ==
  /\ RxStep("rx_tail", IF rxc >= 48 /\ rxc <= 57 THEN "rx_val" ELSE "ka")
  /\ Rx_Tail' = (Rx_Tail + 1) % 32
  /\ ucall' = IF rxc >= 48 /\ rxc <= 57 THEN ucall ELSE [NoSend EXCEPT !.blk = 40]
  /\ UNCHANGED <<rxc, rxout>>

\* u16 val = (u16)(c - '0');  write_dgus_vp(0x2040, &val, 2);
main_rx_write ==
  /\ cpc = "rx_val"
  /\ CallEngine(8256, 2, Bytes2(0, rxc - 48), "w_ea0", "rx_w")
  /\ UNCHANGED <<arg, ret, hour_val, min_val, sec_val, tmp, last_p1_update, p1_cnt, P1>>

\* UART5_SendStr("written number: ", 16); UART5_Sendbyte(c); UART5_SendStr("\r\n", 2);
main_rx_echo ==
  /\ UartStep("rx_w", "ka")
  /\ ucall' = [NoSend EXCEPT !.blk = 30]
  /\ UNCHANGED <<RS485_TX_EN, SBUF3_TX, SCON3T_TI>>

\* Rx_Head = 0, Rx_Tail = 0 and an empty ring, from the initialisers of uart.c
InitRing == InitCallers({DutyWord}, {0}, {0}, {BootClock}, {0})

NextRing ==
  \/ UART5_Receive \/ UART5_RX_ISR_PC
  \/ main_rx_check \/ main_rx_read \/ main_rx_tail \/ main_rx_write \/ main_rx_echo
  \/ write_dgus_vp_short \/ HW_Transaction
  \/ keep_alive_send \/ UART5_SendStr \/ UART5_Sendbyte \/ UART_TxDone

SpecRing == InitRing /\ [][NextRing]_vars

(* ------------------------- delay_ms (sys.c) --------------------------- *)
\* delays the callers request: none, one and two ticks, and the first value
\* with a non-zero high byte
DelayTimes == {0, 1, 2, 256}

\* a 16-bit value with its high byte, or its low byte, replaced by that of w
WithHigh(v, w) == (w \div 256) * 256 + (v % 256)
WithLow(v, w) == (v \div 256) * 256 + (w % 256)

\* delay_ms(n):  SysTick = n;   the 8-bit CPU stores the 16-bit value one
\* byte at a time, in the order the compiler chose; cpc names the byte that
\* is still to be stored
delay_ms_load ==
  \E n \in DelayTimes, f \in {"hi", "lo"} :
    /\ MainStep("main", IF f = "hi" THEN "dl_lo" ELSE "dl_hi")
    /\ arg' = [fn |-> "delay_ms", a |-> n, ptr |-> 0]
    /\ SysTick' = IF f = "hi" THEN WithHigh(SysTick, n) ELSE WithLow(SysTick, n)
    /\ snap' = [snap EXCEPT !.tick0 = Wait_Count, !.tick1 = Wait_Count]
    /\ UNCHANGED <<Wait_Count, SysTick_RTC, real_time, Second_Updata_Flag, P2_0, Rx_Head,
                   Rx_Buffer, ret, hour_val, min_val, sec_val, tmp, last_p1_update, p1_cnt, P1>>

\* the other byte of  SysTick = n;
delay_ms_load2 ==
  \E c \in {"dl_lo", "dl_hi"} :
    /\ MainStep(c, "dl_test")
    /\ SysTick' = IF c = "dl_lo" THEN WithLow(SysTick, arg.a) ELSE WithHigh(SysTick, arg.a)
    /\ UNCHANGED <<Wait_Count, SysTick_RTC, real_time, Second_Updata_Flag, P2_0, Rx_Head,
                   Rx_Buffer, arg, ret, hour_val, min_val, sec_val, tmp, last_p1_update,
                   p1_cnt, P1, snap>>

\* while(SysTick);   first byte of SysTick
delay_ms_test_read ==
  \E f \in {"hi", "lo"} :
    /\ MainStep("dl_test", "dl_test2")
    /\ tmp' = [n |-> 1, first |-> f,
               hi |-> IF f = "hi" THEN SysTick \div 256 ELSE 0,
               lo |-> IF f = "lo" THEN SysTick % 256 ELSE 0]
    /\ UNCHANGED <<isrvars, arg, ret, hour_val, min_val, sec_val, last_p1_update, p1_cnt, P1,
                   snap>>

\* the value of SysTick the test sees once the other byte is read
SysTickSeen ==
  IF tmp.first = "hi" THEN tmp.hi * 256 + (SysTick % 256)
  ELSE (SysTick \div 256) * 256 + tmp.lo

\* second byte and the test: the loop goes on, or delay_ms returns
delay_ms_test ==
  /\ MainStep("dl_test2", IF SysTickSeen # 0 THEN "dl_test" ELSE "main")
  /\ tmp' = [n |-> 2, first |-> tmp.first, hi |-> SysTickSeen \div 256,
             lo |-> SysTickSeen % 256]
  /\ snap' = [snap EXCEPT !.tick1 = Wait_Count]
  /\ UNCHANGED <<isrvars, arg, ret, hour_val, min_val, sec_val, last_p1_update, p1_cnt, P1>>

delay_ms == delay_ms_load \/ delay_ms_load2 \/ delay_ms_test_read \/ delay_ms_test

InitDelay == InitCallers({DutyWord}, {0}, {0}, {BootClock}, {0})

NextDelay ==
  \/ delay_ms
  \/ RaiseIrq
  \/ T0_ISR_PC \/ T1_ISR_PC \/ T2_ISR_PC \/ UART5_RX_ISR_PC

SpecDelay == InitDelay /\ [][NextDelay]_vars

(* ------------------ the software clock (T1_ISR_PC) -------------------- *)
\* values the clock takes as it runs on from RTC_Init: every hour, and the
\* first, a middle and the last values of the minute, the second and the day
ClockStates ==
  {[year |-> 19, month |-> 5, day |-> d, week |-> 0, hour |-> h, min |-> m, sec |-> s] :
     d \in {1, 28, 31}, h \in 0 .. 23, m \in {0, 30, 59}, s \in {0, 58, 59}}

InitClock == InitCallers({DutyWord}, {0}, {0, 999}, ClockStates, {0})

NextClock ==
  \/ RaiseIrq
  \/ T0_ISR_PC \/ T1_ISR_PC \/ T2_ISR_PC \/ UART5_RX_ISR_PC

SpecClock == InitClock /\ [][NextClock]_vars

(* ------------------ the day of the week (RTC_Get_Week) ---------------- *)
\* days of month m of year 2000 + y
DaysIn(y, m) ==
  IF m = 2 THEN (IF y % 4 = 0 THEN 29 ELSE 28)
  ELSE IF m \in {4, 6, 9, 11} THEN 30 ELSE 31

\* every date of 2000..2099 in the clock, with a display update due
Dates ==
  {[year |-> y, month |-> m, day |-> d, week |-> 0, hour |-> 12, min |-> 0, sec |-> 0] :
     <<y, m, d>> \in {x \in (0 .. 99) \X (1 .. 12) \X (1 .. 31) : x[3] <= DaysIn(x[1], x[2])}}

InitWeek == InitCallers({DutyWord}, {0}, {0}, Dates, {1})

NextWeek == Time_Update_week

SpecWeek == InitWeek /\ [][NextWeek]_vars

(* ------------------ the one-second heartbeat (T1_ISR_PC) -------------- *)
\* number of timer 1 overflows followed: two full seconds and one tick
MaxBeat == 2001

\* timer 1 overflows (TF1) once per millisecond; the handler has returned
\* before the next overflow
T1_Overflow ==
  /\ nIrq < MaxBeat
  /\ pending = {}
  /\ pending' = {"T1"}
  /\ nIrq' = nIrq + 1
  /\ UNCHANGED <<req, caller, probe, uartvars, hwregs, EA, vpmem, pc, locals, SBUF3_RX,
                 isrvars, history>>

\* clocks from which two seconds cross no boundary, or cross the minute, the
\* hour and the day
BeatClocks ==
  {[year |-> 19, month |-> 5, day |-> 1, week |-> 0, hour |-> h, min |-> m, sec |-> s] :
     h \in {12, 23}, m \in {0, 59}, s \in {0, 58}}

\* SysTick_RTC = 0 and Second_Updata_Flag = 0 as the start-up code leaves them
InitBeat == InitCallers({DutyWord}, {0}, {0}, BeatClocks, {0})

NextBeat == T1_Overflow \/ T1_ISR_PC

SpecBeat == InitBeat /\ [][NextBeat]_vars

(* ------------------------------ properties ---------------------------- *)
\* the main context is inside a call, past its first statement (EA = 0;)
Critical == pc \notin {"idle", "w_ea0", "r_ea0"}
\* a call has returned and no new one has been entered
Returned == pc = "idle" /\ Len(eaOps) = 2
WriteReturned == Returned /\ lastWrite.seq = 1
\* this step enters an interrupt handler (its request flag is cleared)
IsrStep == pending' # pending /\ pending' \subseteq pending
\* this step is taken by the firmware, not by the hardware
FirmwareStep == pc' # pc \/ EA' # EA \/ IsrStep
\* buffer index of the byte that lane l of slot s holds for a transfer at VP
\* address a (linear byte index 4*s + (3 - l), relative to 2*a)
ByteIndex(a, s, l) == 4 * s + (3 - l) - 2 * a

\* C1: a write directly followed by a read of the same address and length
\* returns the written bytes, byte for byte.
C1_RoundTrip ==
  (pc = "idle" /\ lastWrite.seq = 2 /\ lastWrite.addr = addr /\ lastWrite.len = len0)
    => \A i \in 0 .. (len0 - 1) : buf[i] = lastWrite.data[i]

C1_Witness ==
  /\ pc = "idle" /\ lastWrite.seq = 2 /\ lastWrite.addr = addr
  /\ is_odd = 1 /\ len0 = 9 /\ lastWrite.len = 9
  /\ buf[8] = lastWrite.data[8] /\ buf[8] # buf0[8]
  /\ lastWrite.data = SrcBuf(2)

\* C2: EA is 0 from the first handshake-register write of a call until after
\* the last one; no handler is entered inside a call, only once the bus has
\* been released (or before the call has disabled interrupts).
C2_Atomicity ==
  /\ [](Critical => EA = 0)
  /\ [][IsrStep => (~Critical /\ RAMMODE = 0)]_vars

C2_Witness ==
  /\ pending # {} /\ pc = "w_b_wait" /\ EA0 = 1
  /\ Len(txlog) = 2 /\ APP_EN_Of(RAMMODE) = 1

\* C3: the interrupt-enable flag after a call returns equals its value
\* immediately before the call, for either entry value.
C3_MaskRestored == Returned => EA = EA0

\* C4: a zero-length call starts no transaction and leaves VP memory and the
\* caller's buffer unchanged.
C4_ZeroLength ==
  len0 = 0 => /\ txlog = <<>>
              /\ APP_EN_Of(RAMMODE) = 0
              /\ vpmem = mem0
              /\ buf = buf0

C4_Witness == Returned /\ len0 = 0 /\ is_odd = 1 /\ lastWrite.seq = 1

\* C5: every call performs exactly one interrupt-disable, as its first step,
\* and exactly one interrupt-restore, as its last step.
C5_SymmetricMasking ==
  /\ pc \in {"w_ea0", "r_ea0"} => eaOps = <<>>
  /\ Critical => eaOps = <<"disable">>
  /\ pc = "idle" => eaOps \in {<<>>, <<"disable", "restore">>}
  /\ (pc = "idle" /\ eaOps = <<>>) => (txlog = <<>> /\ bufAcc = <<>> /\ vpmem = InitMem)

C5_Witness == Returned /\ len0 = 0 /\ is_odd = 0 /\ lastWrite.seq = 0 /\ EA0 = 1

\* C6: while a started transaction is not yet completed (APP_EN = 1), no
\* firmware step, of either engine or of any interrupt handler, writes the
\* address registers, ADR_INC, the data lanes or the mask bits of RAMMODE.
C6_Indivisible ==
  [][(APP_EN_Of(RAMMODE) = 1 /\ FirmwareStep) =>
       /\ UNCHANGED <<ADR_H, ADR_M, ADR_L, ADR_INC, DATA3, DATA2, DATA1, DATA0>>
       /\ RAMMODE' % 16 = RAMMODE % 16]_vars

C6_Witness ==
  /\ APP_EN_Of(RAMMODE) = 1 /\ pc = "dw_wait" /\ EA = 1 /\ "T0" \in pending
  /\ RAMMODE % 16 = 3

\* C7: a write sets exactly the lanes of the bytes 0..len-1 (linear byte index
\* 2*addr + i, slot L div 4, lane 3 - L mod 4) and leaves every other lane of
\* every slot unchanged.
C7_WriteFootprint ==
  WriteReturned =>
    \A s \in Slots, l \in Lanes :
      LET i == ByteIndex(addr, s, l)
      IN vpmem[s][l] = IF 0 <= i /\ i < len0 THEN buf0[i] ELSE mem0[s][l]

C7_Witness ==
  /\ WriteReturned /\ is_odd = 1 /\ len0 = 7
  /\ vpmem[BaseSlot][3] = mem0[BaseSlot][3]
  /\ vpmem[BaseSlot + 2][3] = buf0[6] /\ vpmem[BaseSlot + 2][2] = mem0[BaseSlot + 2][2]
  /\ mem0 # InitMem /\ vpmem # mem0

\* C8: a call accesses exactly the buffer indices 0..len-1, each once and in
\* ascending order, never index len or beyond, and the remaining-length
\* counter never underflows.
C8_BufferBounds ==
  /\ Len(bufAcc) <= len0
  /\ \A j \in 1 .. Len(bufAcc) : bufAcc[j] = j - 1
  /\ Returned => Len(bufAcc) = len0
  /\ len <= len0
  /\ \A i \in BufIdx : i >= len0 => buf[i] = buf0[i]
  /\ pc \in {"w_rel", "r_rel"} => bi = len0

C8_Witness ==
  /\ Returned /\ lastWrite.seq = 2 /\ len0 = 7 /\ is_odd = 1
  /\ bufAcc = <<0, 1, 2, 3, 4, 5, 6>> /\ buf[6] # buf0[6] /\ buf[7] = buf0[7]

\* C9: an odd-address write of length 1 issues exactly one write transaction,
\* at slot addr >> 1, with mask 0b0010 and DATA1 = buf[0].
C9_OddLen1 ==
  (WriteReturned /\ addr % 2 = 1 /\ len0 = 1) =>
    /\ Len(txlog) = 1
    /\ txlog[1].slot = addr \div 2
    /\ txlog[1].rw = 0
    /\ txlog[1].mask = 2
    /\ txlog[1].data[3] = buf0[0]

C9_Witness ==
  /\ WriteReturned /\ addr % 2 = 1 /\ len0 = 1 /\ Len(txlog) = 1
  /\ vpmem[addr \div 2][1] = buf0[0] /\ vpmem[addr \div 2][0] = InitMem[addr \div 2][0]

\* C10: an odd-address write of length 9 issues exactly three write
\* transactions: head (mask 0b0011, buf[0..1]) at slot s, full (mask 0b1111,
\* buf[2..5]) at s+1, tail (mask 0b1110, buf[6..8]) at s+2.
C10_OddLen9 ==
  (WriteReturned /\ addr % 2 = 1 /\ len0 = 9) =>
    /\ Len(txlog) = 3
    /\ \A j \in 1 .. 3 : txlog[j].rw = 0 /\ txlog[j].slot = (addr \div 2) + j - 1
    /\ txlog[1].mask = 3
    /\ txlog[1].data[3] = buf0[0] /\ txlog[1].data[4] = buf0[1]
    /\ txlog[2].mask = 15
    /\ txlog[2].data = <<buf0[2], buf0[3], buf0[4], buf0[5]>>
    /\ txlog[3].mask = 14
    /\ txlog[3].data[1] = buf0[6] /\ txlog[3].data[2] = buf0[7]
    /\ txlog[3].data[3] = buf0[8]

C10_Witness ==
  /\ WriteReturned /\ addr % 2 = 1 /\ len0 = 9 /\ Len(txlog) = 3
  /\ txlog[3].slot = BaseSlot + 2 /\ vpmem[BaseSlot + 2][1] = buf0[8]

\* statements of the head block at which its transaction is set up, running
\* or just completed
HeadTx == {"w_h_mode", "w_h_start", "w_h_wait", "r_h_mode", "r_h_start", "r_h_wait",
           "r_h_store"}
\* statements between the head block and the start of the next transaction
AfterHead == {"w_b_mode", "w_b_load", "w_b_start", "w_t_load", "w_t_mode", "w_t_start",
              "r_b_mode", "r_b_start", "r_t_mode", "r_t_start"}

\* C11: odd start, length >= 2: the head transaction runs at slot addr >> 1
\* with auto-increment off and moves exactly buf[0], buf[1] through lanes 1, 0;
\* the address registers are then reprogrammed to (addr >> 1) + 1 with
\* auto-increment on, and the next transaction targets exactly that slot.
C11_OddHead ==
  (is_odd = 1 /\ len0 >= 2) =>
    /\ pc \in HeadTx => (ADR_INC = 0 /\ HwAddr = SlotOf(addr))
    /\ Len(txlog) >= 1 =>
         /\ txlog[1].slot = SlotOf(addr)
         /\ LaneEnabled(txlog[1].mask, 1) /\ LaneEnabled(txlog[1].mask, 0)
         /\ txlog[1].rw = 0 =>
              (txlog[1].mask = 3 /\ txlog[1].data[3] = buf0[0] /\ txlog[1].data[4] = buf0[1])
    /\ pc \in {"w_h_adr", "w_h_inc1", "r_h_adr", "r_h_inc1"} =>
         (bufAcc = <<0, 1>> /\ len = len0 - 2 /\ Len(txlog) = 1)
    /\ pc \in {"r_h_adr", "r_h_inc1"} =>
         (buf[0] = vpmem[SlotOf(addr)][1] /\ buf[1] = vpmem[SlotOf(addr)][0])
    /\ pc \in {"w_h_adr", "w_h_inc1"} =>
         /\ vpmem[SlotOf(addr)][1] = buf0[0] /\ vpmem[SlotOf(addr)][0] = buf0[1]
         /\ vpmem[SlotOf(addr)][3] = mem0[SlotOf(addr)][3]
         /\ vpmem[SlotOf(addr)][2] = mem0[SlotOf(addr)][2]
    /\ pc \in {"w_h_inc1", "r_h_inc1"} => HwAddr = SlotOf(addr) + 1
    /\ (pc \in AfterHead /\ Len(txlog) = 1) =>
         (ADR_INC = 1 /\ HwAddr = SlotOf(addr) + 1 /\ OS_addr = SlotOf(addr) + 1)
    /\ Len(txlog) >= 2 => txlog[2].slot = SlotOf(addr) + 1

C11_Witness ==
  /\ is_odd = 1 /\ len0 = 7 /\ pc = "r_b_start" /\ Len(txlog) = 1
  /\ HwAddr = BaseSlot + 1 /\ ADR_INC = 1 /\ bufAcc = <<0, 1>>
  /\ buf[0] # buf0[0]

\* the last wrapper called is PWM0_Set_Duty(0x1234); its write_dgus_vp call has
\* returned (seq = 1), and the read that followed it has returned (seq = 2)
DutyWritten(seq) ==
  /\ pc = "idle" /\ lastWrite.seq = seq
  /\ arg.fn = "PWM0_Set_Duty" /\ arg.a = 4660

\* C12: writing {0x12, 0x34} to VP 0x0092 issues exactly one write
\* transaction, at slot 0x49 with mask 0b1100, DATA3 = 0x12, DATA2 = 0x34;
\* lanes 1 and 0 of the slot (VP word 0x0093) and all other slots keep their
\* values; a following 2-byte read from 0x0092 returns {0x12, 0x34}.
C12_DutyScenario ==
  /\ DutyWritten(1) =>
       /\ lastWrite.addr = VP_PWM0_OUT /\ lastWrite.len = 2
       /\ Len(txlog) = 1
       /\ txlog[1].slot = 73 /\ txlog[1].rw = 0 /\ txlog[1].mask = 12
       /\ txlog[1].data[1] = 18 /\ txlog[1].data[2] = 52
       /\ vpmem[73][3] = 18 /\ vpmem[73][2] = 52
       /\ vpmem[73][1] = mem0[73][1] /\ vpmem[73][0] = mem0[73][0]
       /\ \A s \in Slots \ {73} : vpmem[s] = mem0[s]
  /\ (DutyWritten(2) /\ addr = VP_PWM0_OUT /\ len0 = 2) =>
       (buf[0] = 18 /\ buf[1] = 52 /\ vpmem = mem0)

C12_Witness ==
  /\ DutyWritten(2) /\ addr = VP_PWM0_OUT /\ len0 = 2
  /\ buf[0] = 18 /\ buf[1] = 52 /\ buf0[0] # 18
  /\ vpmem[73][1] = InitMem[73][1] /\ vpmem[73][3] # InitMem[73][3]

\* C14: a call's outcome is determined by its arguments and the VP memory it
\* starts with, whatever the handshake registers held at entry: executed
\* again with the same arguments it issues the same transactions and leaves
\* the same memory and the same buffer, and a write repeated on the memory
\* its first execution left does not change that memory
C14_CallIndependence ==
  (pc = "idle" /\ Len(eaOps) = 2 /\ ref.n = 1 /\ RwNow = ref.rw /\ buf0 = ref.src) =>
    /\ mem0 = ref.mem0 =>
         (TxView(txlog) = ref.tx /\ vpmem = ref.mem /\ buf = ref.out)
    /\ (ref.rw = 0 /\ mem0 = ref.mem) => vpmem = ref.mem

C14_Witness ==
  /\ pc = "idle" /\ Len(eaOps) = 2 /\ ref.n = 1 /\ RwNow = 0 /\ ref.rw = 0
  /\ buf0 = ref.src /\ mem0 = ref.mem0 /\ vpmem # mem0
  /\ ref.left = <<255, 255, 255, 0, 170, 187, 204, 221, 15>>
  /\ is_odd = 1 /\ len0 = MaxLen /\ Len(txlog) >= 3

\* position of a call: 0 idle, 1 entry and address set-up, 2 head block,
\* 3 bulk loop, 4 tail block, 5 about to release, 6 released
PhaseOf(p) ==
  CASE p = "idle" -> 0
    [] p \in {"w_ea0", "w_adr", "w_inc", "r_ea0", "r_adr", "r_inc"} -> 1
    [] p \in {"w_h_inc0", "w_h_load", "w_h_mode", "w_h_start", "w_h_wait", "w_h_adr",
              "w_h_inc1", "r_h_inc0", "r_h_mode", "r_h_start", "r_h_wait",
              "r_h_store", "r_h_adr", "r_h_inc1"} -> 2
    [] p \in {"w_b_mode", "w_b_load", "w_b_start", "w_b_wait",
              "r_b_mode", "r_b_start", "r_b_wait", "r_b_store"} -> 3
    [] p \in {"w_t_load", "w_t_mode", "w_t_start", "w_t_wait",
              "r_t_mode", "r_t_start", "r_t_wait", "r_t_store"} -> 4
    [] p \in {"w_rel", "r_rel"} -> 5
    [] p \in {"w_ea1", "r_ea1"} -> 6
    [] OTHER -> 7

\* C13: every call goes idle -> address set -> optional head -> bulk loop ->
\* optional tail -> released -> idle; the first transaction is at the call's
\* own slot address, RAMMODE is 0 once the call has released the bus and still
\* with interrupts disabled, and no transaction is started after the release.
C13_ReleaseOnEveryPath ==
  /\ [](/\ PhaseOf(pc) <= 6
        /\ txlog # <<>> => txlog[1].slot = SlotOf(addr)
        /\ PhaseOf(pc) = 1 => txlog = <<>>
        /\ PhaseOf(pc) = 2 => Len(txlog) <= 1
        /\ PhaseOf(pc) = 6 => (RAMMODE = 0 /\ EA = 0)
        /\ (pc = "idle" /\ Len(eaOps) = 2) => RAMMODE = 0)
  /\ [][/\ pc' # pc =>
            LET a == PhaseOf(pc)
                b == PhaseOf(pc')
            IN \/ a = 0 /\ b = 1
               \/ a \in 1 .. 4 /\ b \in a .. 5
               \/ a = 5 /\ b = 6
               \/ a = 6 /\ b = 0
        /\ (EA = 0 /\ EA' = 1 /\ pc # "idle") => (PhaseOf(pc) = 6 /\ RAMMODE = 0)
        /\ (PhaseOf(pc) = 6 \/ (pc = "idle" /\ pc' = "idle")) =>
             (txlog' = txlog /\ vpmem' = vpmem /\ RAMMODE' = RAMMODE)]_vars

C13_Witness ==
  /\ pc = "w_ea1" /\ is_odd = 1 /\ len0 = MaxLen /\ Len(txlog) >= 3
  /\ EA0 = 1 /\ RAMMODE = 0 /\ EA = 0 /\ ADR_INC = 1
  /\ txlog[1].slot = SlotOf(addr) /\ txlog[1].mask = 3

\* the busy-polls of the engine:  while(APP_EN);
WaitPcs == {"w_h_wait", "w_b_wait", "w_t_wait", "r_h_wait", "r_b_wait", "r_t_wait"}

\* C15: once the hardware has stopped clearing APP_EN after a started
\* transaction, the call stays in its busy-poll with interrupts disabled: it
\* never returns, no further transaction is started, no interrupt handler
\* runs, and Wait_Count and real_time keep their values.
C15_NonAcknowledgement ==
  /\ [](stuck => (pc \in WaitPcs /\ EA = 0 /\ APP_EN_Of(RAMMODE) = 1))
  /\ [][stuck =>
          /\ pc' = pc /\ txlog' = txlog /\ ~IsrStep
          /\ UNCHANGED <<hwregs, EA, vpmem, Wait_Count, real_time>>]_vars

C15_Witness ==
  /\ stuck /\ pc = "r_b_wait" /\ Len(txlog) = 2
  /\ "T0" \in pending /\ Wait_Count = 1 /\ EA0 = 1

\* C16: the handshake registers and VP memory change only inside a
\* write_dgus_vp/read_dgus_vp call: no step of an interrupt handler and no
\* step of the main loop, Time_Update or a peripheral wrapper outside such a
\* call writes ADR_H, ADR_M, ADR_L, ADR_INC, DATA3..DATA0 or RAMMODE, and VP
\* memory changes only by a transaction an engine call is waiting for.
C16_ExclusiveOwnership ==
  [][/\ (IsrStep \/ pc = "idle") => UNCHANGED <<hwregs, vpmem>>
     /\ vpmem' # vpmem => (pc \in WaitPcs /\ APP_EN_Of(RAMMODE) = 1)]_vars

C16_Witness ==
  /\ pc = "idle" /\ cpc = "tu_w3" /\ lastWrite.seq = 1 /\ ADR_INC = 1
  /\ nIrq = MaxIrq /\ pending = {} /\ vpmem # InitMem

\* the shared variables of the tick and clock handlers
SharedState == <<Wait_Count, SysTick, SysTick_RTC, real_time, Second_Updata_Flag>>

\* C17 (as stated): from entry to a call until its return, Wait_Count,
\* SysTick, SysTick_RTC, real_time and Second_Updata_Flag keep their values.
C17_FrameFromEntry == [][pc # "idle" => UNCHANGED SharedState]_vars

\* C17 (amended): from the statement that disables interrupts until the
\* call returns, Wait_Count, SysTick, SysTick_RTC, real_time and
\* Second_Updata_Flag keep their values; a handler can still run between
\* the entry to the call and that statement.
C17_FrameWhileMasked == [][Critical => UNCHANGED SharedState]_vars

C17_Witness ==
  /\ pc = "w_t_wait" /\ "T1" \in pending /\ EA0 = 1 /\ EA = 0
  /\ Wait_Count = 1 /\ Len(txlog) = 3

\* C18: a 16-bit value of Wait_Count assembled by the main loop from its two
\* byte reads is one of the values Wait_Count held from the first byte read
\* (snap.tick0) to the second (snap.tick1).
C18_TickNotTorn ==
  tmp.n = 2 =>
    (tmp.hi * 256 + tmp.lo + 65536 - snap.tick0) % 65536
      <= (snap.tick1 + 65536 - snap.tick0) % 65536

\* C19: the (hour, min, sec) triple one invocation of Time_Update has captured
\* is a triple real_time held at one instant of the capture: the one at the
\* read of hour (snap.time0) or the one at the read of sec (snap.time1); the
\* clock advances at most once between these two reads, the next second
\* being a thousand T1 interrupts away.
C19_ClockNotTorn ==
  cpc \in {"tu_w1", "tu_w2", "tu_w3", "tu_clr"} =>
    <<hour_val, min_val, sec_val>> \in {snap.time0, snap.time1}

\* C20: ADC_Read_Raw(channel, ptr) with channel > 7 or a null ptr returns 1
\* and in doing so starts no transaction, writes no handshake register,
\* leaves EA alone and stores nothing through ptr; with channel in 0..7 and a
\* non-null ptr it makes one read_dgus_vp call of length 2 at
\* VP_ADC_INSTANT + 2 * channel and returns 0 when that call has returned.
C20_WrapperValidation ==
  [][/\ (cpc = "adc_chk" /\ cpc' # "adc_chk") =>
          IF arg.a > 7 \/ arg.ptr = 0
          THEN /\ ret' = 1 /\ cpc' = "main"
               /\ UNCHANGED <<hwregs, EA, vpmem, buf, txlog, pc>>
          ELSE /\ pc = "idle" /\ pc' = "r_ea0" /\ cpc' = "ret0"
               /\ addr' = VP_ADC_INSTANT + 2 * arg.a /\ len' = 2
     /\ (cpc = "ret0" /\ arg.fn = "ADC_Read_Raw" /\ pc = "idle") =>
          /\ pc' = "idle"
          /\ cpc' # cpc =>
               /\ ret' = 0 /\ cpc' = "main"
               /\ Len(eaOps) = 2 /\ len0 = 2 /\ addr = VP_ADC_INSTANT + 2 * arg.a
               /\ Len(txlog) = 1 /\ txlog[1].rw = 1]_vars

C20_Witness ==
  /\ ret = 1 /\ cpc = "main" /\ arg = NoArg
  /\ pc = "idle" /\ Len(eaOps) = 2 /\ len0 = 2 /\ addr = VP_ADC_INSTANT + 14
  /\ Len(txlog) = 1 /\ buf # DstBuf

\* C21: when LED_Set_Brightness_Now(b) has written, lane 0 (D0) of the slot
\* of VP_LED_CONFIG holds b and lanes 3, 2, 1 of that slot are as before.
C21_BacklightLowByte ==
  (pc = "idle" /\ lastWrite.seq = 1 /\ arg.fn = "LED_Set_Brightness_Now") =>
    /\ vpmem[VP_LED_CONFIG \div 2][0] = arg.a
    /\ \A l \in {1, 2, 3} : vpmem[VP_LED_CONFIG \div 2][l] = mem0[VP_LED_CONFIG \div 2][l]

\* the two bytes of VP word w in memory m, high byte first: a slot holds the
\* even word in lanes 3, 2 and the odd word in lanes 1, 0
VPWord(m, w) ==
  IF w % 2 = 0 THEN <<m[w \div 2][3], m[w \div 2][2]>>
  ELSE <<m[w \div 2][1], m[w \div 2][0]>>

\* C22: ADC_Read_Raw(c, ptr) with c in 0..7 reads VP word VP_ADC_INSTANT + c
\* and delivers its two bytes, so the channels occupy consecutive words.
C22_AdcLayout ==
  (pc = "idle" /\ Len(eaOps) = 2 /\ cpc = "ret0" /\ arg.fn = "ADC_Read_Raw") =>
    /\ addr = VP_ADC_INSTANT + arg.a
    /\ <<buf[0], buf[1]>> = VPWord(mem0, VP_ADC_INSTANT + arg.a)

\* C23: in every state outside the T1 handler, real_time.sec and
\* real_time.min are in 0..59 and real_time.hour is in 0..23.
C23_TimeOfDayRanges ==
  /\ real_time.sec \in 0 .. 59
  /\ real_time.min \in 0 .. 59
  /\ real_time.hour \in 0 .. 23

C23_Witness ==
  /\ TimeOf(real_time) = <<0, 0, 0>> /\ real_time.day = 2
  /\ Second_Updata_Flag = 1 /\ SysTick_RTC = 1

\* C24: real_time.day stays in 1..31 and real_time.month in 1..12.
C24_CalendarRanges ==
  /\ real_time.day \in 1 .. 31
  /\ real_time.month \in 1 .. 12

\* days from 1 January 2000 to day d of month m of year 2000 + y: the years
\* before (those divisible by 4 are leap years, 2000 included), the months
\* before, and the days before
DayCount(y, m, d) ==
  LET before == <<0, 31, 59, 90, 120, 151, 181, 212, 243, 273, 304, 334>>
  IN 365 * y + ((y + 3) \div 4)
       + before[m] + (IF y % 4 = 0 /\ m > 2 THEN 1 ELSE 0)
       + (d - 1)

\* the Gregorian weekday, 0 = Monday .. 6 = Sunday; 1 January 2000 was a
\* Saturday
Weekday(y, m, d) == (5 + DayCount(y, m, d)) % 7

\* C25: for every date of 2000..2099 the weekday Time_Update obtains from
\* RTC_Get_Week(year, month, day) is in 0..6 and is the Gregorian weekday of
\* that date, 0 = Monday .. 6 = Sunday.
C25_DayOfWeek ==
  cpc = "tu_hour" =>
    /\ real_time.week \in 0 .. 6
    /\ real_time.week = Weekday(real_time.year, real_time.month, real_time.day)

C25_Witness ==
  /\ cpc = "tu_hour" /\ real_time.year = 24 /\ real_time.month = 2
  /\ real_time.day = 29 /\ real_time.week = 3

\* C26: delay_ms(n) does not return before the T0 handler has run n times
\* since SysTick was loaded (Wait_Count counts the runs of the handler).
C26_DelayLowerBound ==
  [][(cpc = "dl_test2" /\ cpc' = "main") =>
       (Wait_Count + 65536 - snap.tick0) % 65536 >= arg.a]_vars

\* C27: RS485_TX_EN is 1 whenever a byte is loaded into SBUF3_TX, and it is
\* 0 whenever the firmware is not inside UART5_SendStr or UART5_Sendbyte.
C27_Rs485Direction ==
  /\ [](cpc \notin {"ss_loop", "ss_dis", "sb_load", "sb_wait", "sb_clr"} => RS485_TX_EN = 0)
  /\ [][(cpc = "sb_load" /\ cpc' = "sb_wait") => RS485_TX_EN = 1]_vars
\* what the arguments of the running call imply for its alignment block: whether
\* it runs, how many bytes it consumes, and what is left for the phases after it
HeadRuns == IF is_odd = 1 /\ len0 > 0 THEN 1 ELSE 0
HeadBytes == IF HeadRuns = 0 THEN 0 ELSE IF len0 > 1 THEN 2 ELSE 1
Remaining == len0 - HeadBytes
\* slot at which the bulk phase starts
BulkBase == SlotOf(addr) + HeadRuns

\* C28: with r bytes remaining after the optional head, exactly r \div 4 bulk
\* transactions are issued: the loop is left with that many on the log and never
\* starts one more; during the loop auto-increment is on and RAMMODE is 0x8F
\* (write) or 0xAF (read); the k-th one is at slot b + k - 1 with all four lanes
\* enabled and moves buffer bytes 4(k-1) .. 4(k-1)+3 of the remainder through
\* lanes 3, 2, 1, 0 in that order.
C28_BulkPhase ==
  LET done == Len(txlog) - HeadRuns
      n == Remaining \div 4
  IN /\ PhaseOf(pc) = 3 =>
          /\ ADR_INC = 1
          /\ done \in 0 .. n
          /\ len = Remaining - 4 * (IF pc = "r_b_store" \/ pc \in WaitPcs THEN done - 1 ELSE done)
          /\ pc \in {"w_b_mode", "w_b_load", "w_b_start", "r_b_mode", "r_b_start"} => done < n
          /\ pc \in {"w_b_load", "w_b_start"} => RAMMODE = 143
          /\ pc = "r_b_start" => RAMMODE = 175
          /\ pc = "w_b_wait" => RAMMODE \in {143, 143 + 64}
          /\ pc \in {"r_b_wait", "r_b_store"} => RAMMODE \in {175, 175 + 64}
     /\ pc \in {"w_t_load", "r_t_mode", "w_rel", "r_rel"} => done >= n
     /\ pc \in {"w_t_load", "r_t_mode"} => done = n
     /\ \A k \in 1 .. n :
          /\ HeadRuns + k <= Len(txlog) =>
               LET tx == txlog[HeadRuns + k]
                   o == HeadBytes + 4 * (k - 1)
               IN /\ tx.slot = BulkBase + k - 1
                  /\ tx.mask = 15
                  /\ tx.rw = 0 =>
                       /\ tx.data = <<buf0[o], buf0[o + 1], buf0[o + 2], buf0[o + 3]>>
                       /\ (HeadRuns + k < Len(txlog) \/ PhaseOf(pc) \in {0, 5, 6}) =>
                            \A j \in 0 .. 3 : vpmem[tx.slot][3 - j] = buf0[o + j]
                  /\ (tx.rw = 1 /\ bi >= o + 4) =>
                       \A j \in 0 .. 3 : buf[o + j] = mem0[tx.slot][3 - j]

C28_Witness ==
  /\ pc = "r_t_mode" /\ is_odd = 0 /\ len0 = 9 /\ Len(txlog) = 2
  /\ txlog[2].slot = BaseSlot + 1 /\ txlog[2].mask = 15 /\ txlog[2].rw = 1
  /\ buf[4] = mem0[BaseSlot + 1][3] /\ buf[7] = mem0[BaseSlot + 1][0] /\ buf[4] # buf0[4]
\* statements of the tail block of write_dgus_vp
WriteTail == {"w_t_load", "w_t_mode", "w_t_start", "w_t_wait"}
\* RAMMODE mask the tail needs for t remaining bytes
TailNeeds(t) == CASE t = 1 -> 8 [] t = 2 -> 12 [] t = 3 -> 14 [] OTHER -> 0

ByteAt(m, i) == m[(2 * addr + i) \div 4][3 - ((2 * addr + i) % 4)]
\* this step sets APP_EN
StartsTx == Len(txlog') = Len(txlog) + 1
\* statements of the tail blocks after their transaction has been started
TailStarted == {"w_t_wait", "r_t_wait", "r_t_store"}

\* C30: the transactions of a call are started in the order head (at most one,
\* and first), bulk, tail (at most one, and last); a transaction is started
\* only when the hardware is idle and every earlier transaction of the call has
\* taken effect (write: its bytes are in VP memory; read: its bytes are in the
\* buffer); the slots of successive transactions increase by exactly one.
C30_IssueOrder ==
  /\ [](\A k \in 2 .. Len(txlog) : txlog[k].slot = txlog[k - 1].slot + 1)
  /\ [][/\ (pc' # pc /\ PhaseOf(pc) \in 2 .. 4) => PhaseOf(pc') >= PhaseOf(pc)
        /\ (pc \in TailStarted \/ PhaseOf(pc) \in {5, 6}) =>
             (~StartsTx /\ pc' \notin {"w_t_load", "w_t_mode", "w_t_start", "r_t_mode",
                                       "r_t_start"})
        /\ StartsTx =>
             LET before == IF txlog = <<>> THEN 0
                           ELSE HeadBytes + 4 * (Len(txlog) - HeadRuns)
             IN /\ PhaseOf(pc) \in 2 .. 4
                /\ PhaseOf(pc) = 2 => txlog = <<>>
                /\ APP_EN_Of(RAMMODE) = 0 /\ APP_EN_Of(RAMMODE') = 1
                /\ txlog'[Len(txlog')].rw = 0 =>
                     \A i \in 0 .. before - 1 : ByteAt(vpmem, i) = buf0[i]
                /\ txlog'[Len(txlog')].rw = 1 =>
                     /\ bi = before
                     /\ \A i \in 0 .. before - 1 : buf[i] = ByteAt(mem0, i)]_vars

C30_Witness ==
  /\ pc = "w_t_wait" /\ is_odd = 1 /\ len0 = 8 /\ Len(txlog) = 3
  /\ APP_EN_Of(RAMMODE) = 1
  /\ txlog[1].mask = 3 /\ txlog[2].mask = 15 /\ txlog[3].mask = 12
  /\ txlog[2].slot = txlog[1].slot + 1 /\ txlog[3].slot = txlog[2].slot + 1
  /\ ByteAt(vpmem, 5) = buf0[5] /\ ByteAt(vpmem, 5) # ByteAt(mem0, 5)
\* statements of read_dgus_vp
ReadPcs == {"r_ea0", "r_adr", "r_inc", "r_h_inc0", "r_h_mode", "r_h_start", "r_h_wait",
            "r_h_store", "r_h_adr", "r_h_inc1", "r_b_mode", "r_b_start", "r_b_wait",
            "r_b_store", "r_t_mode", "r_t_start", "r_t_wait", "r_t_store", "r_rel", "r_ea1"}
\* a read_dgus_vp call has returned and no new call has been entered
ReadReturned == Returned /\ lastWrite.seq # 1

\* C31: every transaction of read_dgus_vp is a read with mask 0b1111 (RAMMODE
\* 0xAF when APP_EN is set), whatever the number of bytes wanted from the
\* slot; the buffer receives exactly the requested bytes (lanes 1, 0 of the
\* head slot, a prefix of lanes 3, 2, 1 of the tail slot) and nothing beyond
\* them; VP memory is never changed by the call.
C31_ReadPath ==
  (pc \in ReadPcs \/ ReadReturned) =>
    /\ vpmem = mem0
    /\ \A k \in 1 .. Len(txlog) : txlog[k].rw = 1 /\ txlog[k].mask = 15
    /\ pc \in {"r_h_start", "r_b_start", "r_t_start"} => RAMMODE = 175
    /\ pc \in {"r_h_wait", "r_b_wait", "r_t_wait"} => RAMMODE \in {175, 175 + 64}
    /\ \A i \in BufIdx :
         /\ i < bi => buf[i] = ByteAt(mem0, i)
         /\ i >= bi => buf[i] = buf0[i]
    /\ bi <= len0
    /\ bufAcc = [i \in 1 .. bi |-> i - 1]
    /\ (pc \in {"r_rel", "r_ea1"} \/ ReadReturned) => bi = len0

C31_Witness ==
  /\ ReadReturned /\ is_odd = 1 /\ len0 = 9 /\ Len(txlog) = 3
  /\ txlog[1].mask = 15 /\ txlog[3].mask = 15
  /\ buf[0] = mem0[BaseSlot][1] /\ buf[1] = mem0[BaseSlot][0]
  /\ buf[8] = mem0[BaseSlot + 2][1] /\ buf[9] = buf0[9]
  /\ buf0[9] # mem0[BaseSlot + 2][0]
\* C32: a returned call has issued exactly h + r \div 4 + t transactions
\* (h = 1 for an odd address with len > 0, r = len minus the 1 or 2 bytes of
\* the head, t = 1 when r mod 4 > 0); and when the processor keeps running and
\* the hardware clears APP_EN after every started transaction, every call that
\* was entered returns.
C32_Termination ==
  /\ [](Returned =>
          LET h == IF addr % 2 = 1 /\ len0 > 0 THEN 1 ELSE 0
              c == IF h = 1 THEN (IF len0 < 2 THEN len0 ELSE 2) ELSE 0
              r == len0 - c
              t == IF r % 4 > 0 THEN 1 ELSE 0
          IN Len(txlog) = h + (r \div 4) + t)
  /\ (pc # "idle") ~> Returned

C32_Witness ==
  /\ ReadReturned /\ addr % 2 = 0 /\ len0 = 9 /\ Len(txlog) = 3 /\ len = 1
  /\ RAMMODE = 0 /\ EA = 1
\* the clock t one second later, by arithmetic on the seconds of the day
OneSecondLater(t) ==
  LET s == t.hour * 3600 + t.min * 60 + t.sec + 1
  IN [t EXCEPT !.sec = s % 60, !.min = (s \div 60) % 60, !.hour = (s \div 3600) % 24,
               !.day = t.day + (s \div 86400)]

\* C33: SysTick_RTC stays in 0..999; the n-th run of the T1 handler since
\* start-up, for n a multiple of 1000, resets SysTick_RTC, advances real_time
\* by one second (carrying into minute, hour and day) and sets
\* Second_Updata_Flag to 1; every other run only increments SysTick_RTC.
C33_Heartbeat ==
  /\ [](SysTick_RTC \in 0 .. 999)
  /\ [][pending = {"T1"} /\ pending' = {} =>
          IF nIrq % 1000 = 0
          THEN /\ SysTick_RTC = 999 /\ SysTick_RTC' = 0
               /\ real_time' = OneSecondLater(real_time)
               /\ Second_Updata_Flag' = 1
          ELSE /\ SysTick_RTC' = SysTick_RTC + 1
               /\ real_time' = real_time
               /\ Second_Updata_Flag' = Second_Updata_Flag]_vars

C33_Witness ==
  /\ nIrq = 2000 /\ pending = {} /\ SysTick_RTC = 0 /\ Second_Updata_Flag = 1
  /\ real_time.day = 2 /\ real_time.hour = 0 /\ real_time.min = 0 /\ real_time.sec = 0
\* C34: when Time_Update clears Second_Updata_Flag, the hour, minute and
\* second it captured in this invocation (the values its three write_dgus_vp
\* calls sent to VP 0x2010, 0x2020, 0x2030) are the current real_time.hour,
\* min, sec.
C34_NoLostSecond ==
  [][(cpc = "tu_clr" /\ Second_Updata_Flag = 1 /\ Second_Updata_Flag' = 0) =>
       <<hour_val, min_val, sec_val>> = TimeOf(real_time)]_vars
\* bytes the receive interrupt has stored in the ring
Stored == nIrq - (IF "UART5" \in pending THEN 1 ELSE 0)

\* C35: Rx_Head and Rx_Tail stay in 0..31; Rx_Head is changed only by the
\* UART5 receive handler and Rx_Tail only by the main loop; and as long as no
\* more than 31 bytes were ever waiting to be consumed, the bytes the main loop
\* has consumed are the first bytes that arrived, each once and in arrival
\* order, and every stored byte not yet consumed is still in the ring, in order
\* from Rx_Tail.
C35_ReceiveRing ==
  /\ [](/\ Rx_Head \in 0 .. 31 /\ Rx_Tail \in 0 .. 31
        /\ ~rxover =>
             /\ Rx_Head = Stored % 32 /\ Rx_Tail = TailIncs % 32
             /\ Len(rxout) <= Stored
             /\ rxout = [k \in 1 .. Len(rxout) |-> RxByte(k)]
             /\ \A k \in (TailIncs + 1) .. Stored : Rx_Buffer[(k - 1) % 32] = RxByte(k))
  /\ [][/\ Rx_Head' # Rx_Head => ("UART5" \in pending /\ pending' = pending \ {"UART5"})
        /\ Rx_Tail' # Rx_Tail => (pc = "idle" /\ cpc = "rx_tail" /\ pending' = pending)]_vars

C35_Witness ==
  /\ ~rxover /\ nIrq = 34 /\ Len(rxout) = 33 /\ Rx_Head = 2 /\ Rx_Tail = 1
  /\ rxout[33] = RxByte(33) /\ Rx_Buffer[1] = RxByte(34) /\ cpc = "main"
\* requests both builds handle: an even address with 1..4 bytes, an odd
\* address with 1 or 2 bytes
CommonDomain == (is_odd = 0 /\ len0 \in 1 .. 4) \/ (is_odd = 1 /\ len0 \in 1 .. 2)
\* the demo build's call has returned, after the KEIL build's call of the same
\* request recorded in ref
BothReturned == pc = "idle" /\ ref.n = 2 /\ buf0 = ref.src /\ mem0 = ref.mem0

\* C36: on the common domain, from the same VP memory and the same buffer,
\* the two builds' write_dgus_vp leave identical VP memory and the two
\* read_dgus_vp return identical buffers; the hardware is asked for the same
\* transaction (slot, direction, lanes, bytes written).
C36_BuildEquivalence ==
  (BothReturned /\ CommonDomain) =>
    (vpmem = ref.mem /\ buf = ref.out /\ TxView(txlog) = ref.tx)

C36_Witness ==
  /\ BothReturned /\ is_odd = 0 /\ len0 = 4 /\ ref.rw = 0
  /\ vpmem = ref.mem /\ vpmem # mem0
  /\ ADR_INC = 0 /\ ref.left[4] = 1
  /\ ref.left[1] * 65536 + ref.left[2] * 256 + ref.left[3] = HwAddr + 1
\* the demo build's call executed with interrupts enabled has returned, after
\* the same call executed with interrupts disabled was recorded in ref
PreemptedReturned == pc = "idle" /\ ref.n = 3 /\ buf0 = ref.src /\ mem0 = ref.mem0

\* C37: the demo build's write_dgus_vp / read_dgus_vp, executed with the T0,
\* T1 and UART5 receive handlers running at any point inside the call, asks the
\* hardware for the same transaction (slot, mask, data) and ends with the same
\* VP memory and the same buffer as the same call executed uninterrupted; no
\* handler changes a handshake register.
C37_DemoPreemption ==
  /\ [](PreemptedReturned =>
          (TxView(txlog) = ref.tx /\ vpmem = ref.mem /\ buf = ref.out))
  /\ [][IsrStep => (UNCHANGED hwregs /\ UNCHANGED vpmem /\ UNCHANGED buf)]_vars

C37_Witness ==
  /\ PreemptedReturned /\ ref.rw = 0 /\ is_odd = 0 /\ len0 = 4
  /\ Wait_Count = ref.left[1] + 1 /\ SysTick_RTC = ref.left[2] + 1
  /\ vpmem = ref.mem /\ vpmem # mem0
====
